---- MODULE Spec2Model ----
(***************************************************************************)
(* The kvstore-backed identity allocator backend (kvstoreBackend): master  *)
(* keys id/{ID}, lease-bound slave keys value/{key}/{node}, distributed    *)
(* locks under locks/, the identity garbage collector RunGC and the lock   *)
(* garbage collector RunLocksGC.                                           *)
(*                                                                         *)
(* Strings are sequences of one-character strings, so that path.Join,      *)
(* strings.LastIndex, strconv.FormatUint / ParseUint and prefix listing    *)
(* are computed as the code computes them.                                 *)
(***************************************************************************)
EXTENDS Integers, Sequences, FiniteSets, TLC

VARIABLES
    store,    \* the kvstore: path -> [Data, ModRevision, LeaseID]
    ver,      \* per path, the revision of its last write (kept after a delete)
    held,     \* per node, the distributed lock handle it holds (or NoLock)
    ret,      \* per node, the result of its last AllocateID or AllocateIDIfLocked
    gc,       \* per GC runner, the locals of RunGC and the map it carries
    hist,     \* per master key path, history used to state the temporal claims
    lgc,      \* the locals of RunLocksGC and the map its caller carries
    al,       \* per node, the allocator facade: its call, cache and references
    lw,       \* ListAndWatch: the events received, the handler calls made, the cache
    ops       \* the number of backend calls the nodes have made

vars == <<store, ver, held, ret, gc, hist, lgc, al, lw, ops>>

----------------------------------------------------------------------------
(* Bounds *)

\* the nodes make at most MaxOps backend calls
MaxOps == 4
\* a GC runner runs at most MaxCycles cycles
MaxCycles == 4
\* node operations and GC cycles of one behaviour of SpecLocked
MaxLockedOps == 3
MaxLockedCycles == 2
\* Allocate calls of one node in one behaviour of SpecAlloc
MaxAllocs == 2
\* lock operations of the nodes and rounds of RunLocksGC in SpecLocksGC
MaxLockOps == 4
MaxRounds == 3
\* UpdateKey calls, GC cycles and Allocate calls of one behaviour of SpecSync
MaxSyncs == 1
MaxSyncCycles == 2
MaxSyncAllocs == 1
\* events delivered to ListAndWatch in one behaviour of SpecEvents
MaxEvents == 4
MaxRefOps == 4
MaxUpdateOps == 3
MaxDeleteOps == 2
MaxDeleteCycles == 2
MaxGetOps == 3
MaxLen == 3
MaxWatchOps == 3
MaxRestarts == 1

----------------------------------------------------------------------------
(* Strings *)

Digits == <<"0", "1", "2", "3", "4", "5", "6", "7", "8", "9">>

Max(S) == CHOOSE x \in S : \A y \in S : y <= x

HasPrefix(s, p) == Len(p) <= Len(s) /\ SubSeq(s, 1, Len(p)) = p

TrimPrefix(s, p) == IF HasPrefix(s, p) THEN SubSeq(s, Len(p) + 1, Len(s)) ELSE s

\* strings.LastIndex: 0-based index of the last occurrence of c, or -1
LastIndex(s, c) ==
    LET I == {i \in 1..Len(s) : s[i] = c}
    IN  IF I = {} THEN -1 ELSE Max(I) - 1

\* the last element of strings.Split(key, "/")
LastItem(key) == SubSeq(key, LastIndex(key, "/") + 2, Len(key))

RECURSIVE Dedup(_)
Dedup(s) ==
    IF Len(s) <= 1 THEN s
    ELSE IF s[1] = "/" /\ s[2] = "/" THEN Dedup(Tail(s))
    ELSE <<s[1]>> \o Dedup(Tail(s))

\* path.Clean on paths without "." and ".." elements
Clean(s) ==
    LET d == Dedup(s)
    IN  IF Len(d) > 1 /\ d[Len(d)] = "/" THEN SubSeq(d, 1, Len(d) - 1) ELSE d

RECURSIVE JoinRaw(_)
JoinRaw(elems) ==
    IF elems = <<>> THEN <<>>
    ELSE IF Head(elems) = <<>> THEN JoinRaw(Tail(elems))
    ELSE LET rest == JoinRaw(Tail(elems))
         IN  IF rest = <<>> THEN Head(elems) ELSE Head(elems) \o <<"/">> \o rest

\* path.Join: empty elements are ignored, the result is cleaned
Join(elems) == Clean(JoinRaw(elems))

RECURSIVE FormatUint(_)
FormatUint(n) ==
    IF n < 10 THEN <<Digits[n + 1]>>
    ELSE FormatUint(n \div 10) \o <<Digits[(n % 10) + 1]>>

IsDigit(c) == \E d \in 1..10 : Digits[d] = c

DigitVal(c) == (CHOOSE d \in 1..10 : Digits[d] = c) - 1

RECURSIVE ParseDigits(_, _)
ParseDigits(s, acc) ==
    IF s = <<>> THEN acc ELSE ParseDigits(Tail(s), acc * 10 + DigitVal(Head(s)))

\* strconv.ParseUint(s, 10, 64): -1 stands for err != nil
ParseUint(s) ==
    IF s # <<>> /\ \A i \in 1..Len(s) : IsDigit(s[i]) THEN ParseDigits(s, 0) ELSE -1

prefixMatchesKeyNoSlashCheck(prefix, key) == HasPrefix(key, prefix)

\* the mutant of prefixMatchesKey: strings.Index instead of strings.LastIndex
prefixMatchesKeyFirstSlash(prefix, key) ==
    LET I == {i \in 1..Len(key) : key[i] = "/"}
    IN  Len(prefix) = (IF I = {} THEN -1 ELSE (CHOOSE i \in I : \A j \in I : i <= j) - 1)

prefixMatchesKey(prefix, key) == Len(prefix) = LastIndex(key, "/")

----------------------------------------------------------------------------
(* The backend's prefixes and the participants *)

basePrefix == <<"b">>
idPrefix == Join(<<basePrefix, <<"i", "d">>>>)
valuePrefix == Join(<<basePrefix, <<"v", "a", "l", "u", "e">>>>)
lockPrefix == Join(<<basePrefix, <<"l", "o", "c", "k", "s">>>>)

\* canonical keys; K2 has K1 as a string prefix
K1 == <<"a">>
K2 == <<"a", "c">>
Keys == {K1, K2}

Nodes == {"n1", "n2"}
Runners == {"g1", "g2"}

\* the node specific suffix of each node's backend
suffix(n) == IF n = "n1" THEN <<"x">> ELSE <<"y">>

\* the lease of each kvstore client
LeaseOf(c) == CASE c = "n1" -> 1 [] c = "n2" -> 2 [] c = "g1" -> 3 [] c = "g2" -> 4 [] OTHER -> 5

\* the identity range given to RunGC
minID == 1
maxID == 2
IDs == minID..maxID

\* the mutant of idKeyPath: the master key path of the next ID
idKeyPathOfNext(id) == Join(<<idPrefix, FormatUint(id + 1)>>)

idKeyPath(id) == Join(<<idPrefix, FormatUint(id)>>)
valueKeyPath(key, n) == Join(<<valuePrefix, key, suffix(n)>>)

----------------------------------------------------------------------------
(* The kvstore *)

EmptyMap == [x \in {} |-> 0]
NoLock == [path |-> <<>>, rev |-> 0]

Exists(p) == p \in DOMAIN store
Ver(p) == IF p \in DOMAIN ver THEN ver[p] ELSE 0

\* a write of p: its ModRevision is a revision p never had before
StoreAfterPut(p, data, lease) ==
    (p :> [Data |-> data, ModRevision |-> Ver(p) + 1, LeaseID |-> lease]) @@ store
VerAfterPut(p) == (p :> (Ver(p) + 1)) @@ ver

StoreAfterDelete(p) == [q \in DOMAIN store \ {p} |-> store[q]]

ListPrefix(prefix) == {p \in DOMAIN store : HasPrefix(p, prefix)}

\* a lock handle is valid while the lock entry it created is still in the store
LockValid(h) == h # NoLock /\ Exists(h.path) /\ store[h.path].ModRevision = h.rev

\* kvstore.LockPath on a free path: the lock entry is bound to the client's lease
StoreAfterLock(c, path) == StoreAfterPut(path, <<>>, LeaseOf(c))
HandleAfterLock(path) == [path |-> path, rev |-> Ver(path) + 1]

\* lock.Unlock: removes the lock entry if it is still the one of the handle
StoreAfterUnlock(h) == IF LockValid(h) THEN StoreAfterDelete(h.path) ELSE store

----------------------------------------------------------------------------
(* Lock paths *)

\* kvstoreBackend.lockPath, called by RunGC with a master key path
lockPath(key) == Join(<<lockPrefix, TrimPrefix(key, basePrefix)>>)

\* kvstoreBackend.lock, called by Lock with key.GetKey()
lock(key) == Join(<<lockPrefix, TrimPrefix(key, basePrefix)>>)

----------------------------------------------------------------------------
(* Backend operations called by a node n: the effect on the kvstore. ok     *)
(* says that the kvstore call succeeds (for an IfLocked call: and that the  *)
(* lock the caller passes is still held).                                   *)

\* a returned result: the call, its arguments, whether it returned an error
\* and the number of the call among the node operations of the behaviour
Result(at, op, id, key, err) == [at |-> at, op |-> op, id |-> id, key |-> key, err |-> err]
NoResult == Result(0, "none", 0, <<>>, FALSE)

\* the mutant of AllocateIDCreates: the master key is written even if present
AllocateIDOverwrites(ok, keyPath) == ok

\* CreateOnly(keyPath, key, lease = false) succeeds iff the call does not
\* fail and keyPath is absent
AllocateIDCreates(ok, keyPath) == ok /\ ~Exists(keyPath)

\* the mutant of MasterLease: the master key is bound to the node's lease
MasterLeaseOfNode(n) == LeaseOf(n)

\* master keys are created with lease = false
MasterLease(n) == 0

\* AllocateID and AllocateIDIfLocked return an error iff nothing was created
AllocateIDErr(id, ok) == ~AllocateIDCreates(ok, idKeyPath(id))

AllocateID(n, id, key, ok) ==
    LET keyPath == idKeyPath(id)
        success == AllocateIDCreates(ok, keyPath)
    IN  /\ store' = IF success THEN StoreAfterPut(keyPath, key, MasterLease(n)) ELSE store
        /\ ver' = IF success THEN VerAfterPut(keyPath) ELSE ver

AllocateIDIfLocked(n, id, key, ok, lck) ==
    AllocateID(n, id, key, ok /\ LockValid(lck))

\* UpdateIfDifferent(valueKey, data, lease = true) writes unless the key
\* already holds data under the same lease
Different(valueKey, data, lease) ==
    ~(/\ Exists(valueKey)
      /\ store[valueKey].Data = data
      /\ store[valueKey].LeaseID = lease)

\* the mutant of createValueNodeKey: Update instead of UpdateIfDifferent
createValueNodeKeyAlwaysWrites(n, key, newID, ok) ==
    LET valueKey == valueKeyPath(key, n)
        data == FormatUint(newID)
    IN  /\ store' = IF ok THEN StoreAfterPut(valueKey, data, LeaseOf(n)) ELSE store
        /\ ver' = IF ok THEN VerAfterPut(valueKey) ELSE ver

\* createValueNodeKey: UpdateIfDifferentIfLocked(valueKey, newID, true, lock)
createValueNodeKey(n, key, newID, ok) ==
    LET valueKey == valueKeyPath(key, n)
        data == FormatUint(newID)
        write == ok /\ Different(valueKey, data, LeaseOf(n))
    IN  /\ store' = IF write THEN StoreAfterPut(valueKey, data, LeaseOf(n)) ELSE store
        /\ ver' = IF write THEN VerAfterPut(valueKey) ELSE ver

AcquireReference(n, id, key, ok) == createValueNodeKey(n, key, id, ok)

\* the mutant of Release: the slave keys of every node for the key go
ReleaseAllNodes(n, id, key, ok) ==
    /\ store' = IF ok
                THEN [q \in {r \in DOMAIN store : ~HasPrefix(r, Join(<<valuePrefix, key>>) \o <<"/">>)} |-> store[q]]
                ELSE store
    /\ ver' = ver

\* the mutant of Release: the master key of the ID is removed right away
ReleaseWithCleanup(n, id, key, ok) ==
    /\ store' = IF ok
                THEN [q \in DOMAIN store \ {valueKeyPath(key, n), idKeyPath(id)} |-> store[q]]
                ELSE store
    /\ ver' = ver

\* Release deletes this node's slave key, without a lock
Release(n, id, key, ok) ==
    /\ store' = IF ok THEN StoreAfterDelete(valueKeyPath(key, n)) ELSE store
    /\ ver' = ver

DeleteID(id, ok) ==
    /\ store' = IF ok THEN StoreAfterDelete(idKeyPath(id)) ELSE store
    /\ ver' = ver

\* the lease of client c is lost: every key bound to it disappears
LeaseExpire(c) ==
    /\ \E p \in DOMAIN store : store[p].LeaseID = LeaseOf(c)
    /\ store' = [p \in {q \in DOMAIN store : store[q].LeaseID # LeaseOf(c)} |-> store[p]]
    /\ ver' = ver

----------------------------------------------------------------------------
(* RunGC, one step per kvstore call; r is the runner *)

GCIdle == [pc |-> "idle", allocated |-> EmptyMap, todo |-> {}, key |-> <<>>,
           lck |-> NoLock, pairs |-> EmptyMap, hasUsers |-> FALSE, deleted |-> FALSE,
           staleKeysPrevRound |-> EmptyMap, staleKeys |-> EmptyMap,
           totalEntries |-> 0, deletedEntries |-> 0]

\* what a runner keeps between two calls of RunGC: the map and the stats the
\* last call returned, whether it returned an error, the number of calls
\* (and, for a runner that was restarted, the map that was lost with it)
GCRunner(returned, cycles) ==
    [loc |-> GCIdle, returned |-> returned, stats |-> [Alive |-> 0, Deleted |-> 0],
     err |-> FALSE, cycles |-> cycles, restarted |-> FALSE, lost |-> EmptyMap]

\* RunGC returns (nil, nil, err)
GCReturnErr(g) ==
    [g EXCEPT !.loc = GCIdle, !.returned = EmptyMap,
              !.stats = [Alive |-> 0, Deleted |-> 0], !.err = TRUE]

\* the next key of the range loop is reached
GCContinue(loc) ==
    [loc EXCEPT !.pc = "iter", !.key = <<>>, !.lck = NoLock, !.pairs = EmptyMap,
                !.hasUsers = FALSE, !.deleted = FALSE]

\* the mutant of GCStart: a failed listing returns the map that was passed
GCStartFailureKeepsMap(r, ok) ==
    /\ gc[r].loc.pc = "idle"
    /\ gc[r].cycles < MaxCycles
    /\ gc' = [gc EXCEPT ![r] =
            IF ok
            THEN [gc[r] EXCEPT
                    !.cycles = @ + 1,
                    !.err = FALSE,
                    !.loc = [GCIdle EXCEPT
                        !.pc = "iter",
                        !.allocated = [p \in ListPrefix(idPrefix) |-> store[p]],
                        !.todo = ListPrefix(idPrefix),
                        !.totalEntries = Cardinality(ListPrefix(idPrefix)),
                        !.staleKeysPrevRound = gc[r].returned]]
            ELSE [gc[r] EXCEPT !.cycles = @ + 1, !.err = TRUE]]
    /\ UNCHANGED <<store, ver>>

\* ListPrefix(idPrefix) and the locals set before the loop; the map of the
\* previous call is passed as staleKeysPrevRound
GCStart(r, ok) ==
    /\ gc[r].loc.pc = "idle"
    /\ gc[r].cycles < MaxCycles
    /\ gc' = [gc EXCEPT ![r] =
            IF ok
            THEN [gc[r] EXCEPT
                    !.cycles = @ + 1,
                    !.err = FALSE,
                    !.loc = [GCIdle EXCEPT
                        !.pc = "iter",
                        !.allocated = [p \in ListPrefix(idPrefix) |-> store[p]],
                        !.todo = ListPrefix(idPrefix),
                        !.totalEntries = Cardinality(ListPrefix(idPrefix)),
                        !.staleKeysPrevRound = gc[r].returned]]
            ELSE [GCReturnErr(gc[r]) EXCEPT !.cycles = @ + 1]]
    /\ UNCHANGED <<store, ver>>

\* the mutant of InRange: the upper end of the range is not checked
InRangeNoMax(identityID) == identityID >= minID

\* identityID < min || identityID > max is skipped
InRange(identityID) == identityID >= minID /\ identityID <= maxID

\* the head of the loop body: parse the ID of the key, skip a key that does
\* not parse or is out of range
GCPick(r) ==
    /\ gc[r].loc.pc = "iter"
    /\ \E key \in gc[r].loc.todo :
         LET identityID == ParseUint(LastItem(key))
             skip == identityID = -1 \/ ~InRange(identityID)
         IN  gc' = [gc EXCEPT ![r].loc =
                     IF skip
                     THEN [@ EXCEPT !.todo = @ \ {key}]
                     ELSE [@ EXCEPT !.todo = @ \ {key}, !.key = key, !.pc = "lock"]]
    /\ UNCHANGED <<store, ver>>

\* the mutant of GCLock: a lock that cannot be taken ends the cycle with an error
GCLockFailureEndsCycle(r, ok) ==
    LET path == lockPath(gc[r].loc.key)
    IN  /\ gc[r].loc.pc = "lock"
        /\ IF ok
           THEN /\ ~Exists(path)
                /\ store' = StoreAfterLock(r, path)
                /\ ver' = VerAfterPut(path)
                /\ gc' = [gc EXCEPT ![r].loc.pc = "list",
                                    ![r].loc.lck = HandleAfterLock(path)]
           ELSE /\ gc' = [gc EXCEPT ![r] = GCReturnErr(@)]
                /\ UNCHANGED <<store, ver>>

\* k.lockPath(ctx, key): blocks while the lock path is taken; on an error the
\* key is skipped
GCLock(r, ok) ==
    LET path == lockPath(gc[r].loc.key)
    IN  /\ gc[r].loc.pc = "lock"
        /\ IF ok
           THEN /\ ~Exists(path)
                /\ store' = StoreAfterLock(r, path)
                /\ ver' = VerAfterPut(path)
                /\ gc' = [gc EXCEPT ![r].loc.pc = "list",
                                    ![r].loc.lck = HandleAfterLock(path)]
           ELSE /\ gc' = [gc EXCEPT ![r].loc = GCContinue(@)]
                /\ UNCHANGED <<store, ver>>

\* the mutant of HasUsers: every key listed under the prefix counts as a user
HasUsersAnyListed(valueKeyPrefix, pairs) == pairs # {}

\* hasUsers: some listed slave key matches the prefix exactly
HasUsers(valueKeyPrefix, pairs) ==
    \E prefix \in pairs : prefixMatchesKey(valueKeyPrefix, prefix)

\* the mutant of GCList: a failed listing goes on with the next key without
\* lock.Unlock
GCListFailureKeepsLock(r, ok) ==
    LET loc == gc[r].loc
        valueKeyPrefix == Join(<<valuePrefix, loc.allocated[loc.key].Data>>)
    IN  /\ loc.pc = "list"
        /\ IF ok /\ LockValid(loc.lck)
           THEN /\ gc' = [gc EXCEPT
                        ![r].loc.pc = "decide",
                        ![r].loc.pairs = [q \in ListPrefix(valueKeyPrefix) |-> store[q]],
                        ![r].loc.hasUsers = HasUsers(valueKeyPrefix, ListPrefix(valueKeyPrefix))]
                /\ store' = store
           ELSE /\ store' = store
                /\ gc' = [gc EXCEPT ![r].loc = GCContinue(@)]
        /\ ver' = ver

\* ListPrefixIfLocked(valueKeyPrefix, lock) and the hasUsers loop; on an error
\* the lock is released and the key is skipped
GCList(r, ok) ==
    LET loc == gc[r].loc
        valueKeyPrefix == Join(<<valuePrefix, loc.allocated[loc.key].Data>>)
    IN  /\ loc.pc = "list"
        /\ IF ok /\ LockValid(loc.lck)
           THEN /\ gc' = [gc EXCEPT
                        ![r].loc.pc = "decide",
                        ![r].loc.pairs = [q \in ListPrefix(valueKeyPrefix) |-> store[q]],
                        ![r].loc.hasUsers = HasUsers(valueKeyPrefix, ListPrefix(valueKeyPrefix))]
                /\ store' = store
           ELSE /\ store' = StoreAfterUnlock(loc.lck)
                /\ gc' = [gc EXCEPT ![r].loc = GCContinue(@)]
        /\ ver' = ver

\* the mutant of DeleteDue: a marked key is deleted whatever its revision
DeleteDueAnyRevision(hasUsers, staleKeysPrevRound, key, ModRevision) ==
    ~hasUsers /\ key \in DOMAIN staleKeysPrevRound

\* the mutant of DeleteDue: an unused key is deleted without a previous mark
DeleteDueUnmarked(hasUsers, staleKeysPrevRound, key, ModRevision) ==
    ~hasUsers

\* the mutant of DeleteDue: a marked key is deleted whether it has users or not
DeleteDueWithUsers(hasUsers, staleKeysPrevRound, key, ModRevision) ==
    /\ key \in DOMAIN staleKeysPrevRound
    /\ staleKeysPrevRound[key] = ModRevision

\* DeleteIfLocked is issued: no users, marked in the previous round, at the
\* revision listed in this round
DeleteDue(hasUsers, staleKeysPrevRound, key, ModRevision) ==
    /\ ~hasUsers
    /\ key \in DOMAIN staleKeysPrevRound
    /\ staleKeysPrevRound[key] = ModRevision

\* the mutant of MarkDue: an unused key is marked also when it was marked at
\* another revision
MarkDueAnyUnused(hasUsers, staleKeysPrevRound, key) == ~hasUsers

\* the mutant of MarkDue: a key in use is marked too
MarkDueWithUsers(hasUsers, staleKeysPrevRound, key) == key \notin DOMAIN staleKeysPrevRound

\* staleKeys[key] = v.ModRevision: no users and not in the previous round's map
MarkDue(hasUsers, staleKeysPrevRound, key) ==
    ~hasUsers /\ key \notin DOMAIN staleKeysPrevRound

\* the mutant of GCDecide: deleted is set only when DeleteIfLocked succeeded
GCDecideDeletedOnSuccess(r, ok) ==
    LET loc == gc[r].loc
        v == loc.allocated[loc.key]
        del == DeleteDue(loc.hasUsers, loc.staleKeysPrevRound, loc.key, v.ModRevision)
        mark == ~del /\ MarkDue(loc.hasUsers, loc.staleKeysPrevRound, loc.key)
        success == del /\ ok /\ LockValid(loc.lck)
    IN  /\ loc.pc = "decide"
        /\ (~del) => ok
        /\ store' = IF success THEN StoreAfterDelete(loc.key) ELSE store
        /\ gc' = [gc EXCEPT ![r].loc =
                [@ EXCEPT !.pc = "unlock",
                          !.deleted = success,
                          !.deletedEntries = IF success THEN @ + 1 ELSE @,
                          !.staleKeys = IF mark THEN (loc.key :> v.ModRevision) @@ @ ELSE @]]
        /\ ver' = ver

\* the mutant of GCDecide: a key whose DeleteIfLocked failed is recorded
GCDecideRecordsFailedDelete(r, ok) ==
    LET loc == gc[r].loc
        v == loc.allocated[loc.key]
        del == DeleteDue(loc.hasUsers, loc.staleKeysPrevRound, loc.key, v.ModRevision)
        success == del /\ ok /\ LockValid(loc.lck)
        mark == IF del THEN ~success ELSE MarkDue(loc.hasUsers, loc.staleKeysPrevRound, loc.key)
    IN  /\ loc.pc = "decide"
        /\ (~del) => ok
        /\ store' = IF success THEN StoreAfterDelete(loc.key) ELSE store
        /\ gc' = [gc EXCEPT ![r].loc =
                [@ EXCEPT !.pc = "unlock",
                          !.deleted = del,
                          !.deletedEntries = IF success THEN @ + 1 ELSE @,
                          !.staleKeys = IF mark THEN (loc.key :> v.ModRevision) @@ @ ELSE @]]
        /\ ver' = ver

\* the mutant of GCDecide: deletedEntries counts every DeleteIfLocked issued
GCDecideCountsAttempts(r, ok) ==
    LET loc == gc[r].loc
        v == loc.allocated[loc.key]
        del == DeleteDue(loc.hasUsers, loc.staleKeysPrevRound, loc.key, v.ModRevision)
        mark == ~del /\ MarkDue(loc.hasUsers, loc.staleKeysPrevRound, loc.key)
        success == del /\ ok /\ LockValid(loc.lck)
    IN  /\ loc.pc = "decide"
        /\ (~del) => ok
        /\ store' = IF success THEN StoreAfterDelete(loc.key) ELSE store
        /\ gc' = [gc EXCEPT ![r].loc =
                [@ EXCEPT !.pc = "unlock",
                          !.deleted = del,
                          !.deletedEntries = IF del THEN @ + 1 ELSE @,
                          !.staleKeys = IF mark THEN (loc.key :> v.ModRevision) @@ @ ELSE @]]
        /\ ver' = ver

\* the body of "if !hasUsers": DeleteIfLocked (which fails when the call fails
\* or the lock is lost) or the mark
GCDecide(r, ok) ==
    LET loc == gc[r].loc
        v == loc.allocated[loc.key]
        del == DeleteDue(loc.hasUsers, loc.staleKeysPrevRound, loc.key, v.ModRevision)
        mark == ~del /\ MarkDue(loc.hasUsers, loc.staleKeysPrevRound, loc.key)
        success == del /\ ok /\ LockValid(loc.lck)
    IN  /\ loc.pc = "decide"
        /\ (~del) => ok
        /\ store' = IF success THEN StoreAfterDelete(loc.key) ELSE store
        /\ gc' = [gc EXCEPT ![r].loc =
                [@ EXCEPT !.pc = "unlock",
                          !.deleted = del,
                          !.deletedEntries = IF success THEN @ + 1 ELSE @,
                          !.staleKeys = IF mark THEN (loc.key :> v.ModRevision) @@ @ ELSE @]]
        /\ ver' = ver

\* lock.Unlock, then the next key or the rate limiter
GCUnlock(r) ==
    LET loc == gc[r].loc
    IN  /\ loc.pc = "unlock"
        /\ store' = StoreAfterUnlock(loc.lck)
        /\ gc' = [gc EXCEPT ![r].loc =
                IF loc.deleted THEN [@ EXCEPT !.pc = "wait", !.lck = NoLock]
                ELSE GCContinue(@)]
        /\ ver' = ver

\* rateLimit.Wait: on an error RunGC returns (nil, nil, err)
GCWait(r, ok) ==
    /\ gc[r].loc.pc = "wait"
    /\ gc' = [gc EXCEPT ![r] =
            IF ok THEN [@ EXCEPT !.loc = GCContinue(@)] ELSE GCReturnErr(@)]
    /\ UNCHANGED <<store, ver>>

\* the mutant of GCEnd: the marks of the previous round are returned too
GCEndKeepsPreviousMarks(r) ==
    LET loc == gc[r].loc
    IN  /\ loc.pc = "iter"
        /\ loc.todo = {}
        /\ gc' = [gc EXCEPT ![r] =
                [@ EXCEPT !.loc = GCIdle,
                          !.returned = loc.staleKeys @@ loc.staleKeysPrevRound,
                          !.stats = [Alive |-> loc.totalEntries - loc.deletedEntries,
                                     Deleted |-> loc.deletedEntries]]]
        /\ UNCHANGED <<store, ver>>

\* the loop is over: RunGC returns staleKeys and the stats
GCEnd(r) ==
    LET loc == gc[r].loc
    IN  /\ loc.pc = "iter"
        /\ loc.todo = {}
        /\ gc' = [gc EXCEPT ![r] =
                [@ EXCEPT !.loc = GCIdle,
                          !.returned = loc.staleKeys,
                          !.stats = [Alive |-> loc.totalEntries - loc.deletedEntries,
                                     Deleted |-> loc.deletedEntries]]]
        /\ UNCHANGED <<store, ver>>

----------------------------------------------------------------------------
(* History of runner g1's cycles, per master key path *)

IdPaths == {idKeyPath(id) : id \in IDs}

\* some node's slave key of the master key's value is in store s
InUse(s, p) == \E n \in Nodes : valueKeyPath(s[p].Data, n) \in DOMAIN s

Unused(s, p) == p \in DOMAIN s /\ ~InUse(s, p)

\* quiet: the number of complete cycles, every call on the key succeeding,
\*   that started after the key was last written or used and left it in the
\*   store;
\* clean: the cycle in progress started with the key unused, and the key was
\*   not written or used, and no call on it failed, since;
\* mismatch: the map passed to the first of the quiet cycles held the key at
\*   another revision;
\* sawUsers: since the key was created, a cycle found it with users;
\* lostRef: since the key was created, a lease expiry removed a slave key of it;
\* deletedAt: for a key RunGC deleted, the value of quiet at the deletion
HistInit == [p \in IdPaths |->
                [quiet |-> 0, clean |-> FALSE, mismatch |-> FALSE,
                 sawUsers |-> FALSE, lostRef |-> FALSE, deletedAt |-> -1]]

HistStep ==
    hist' = [p \in IdPaths |->
        LET h == hist[p]
            g == gc["g1"]
            g2 == gc'["g1"]
            onKey == g.loc.key = p
            gcDeleted == /\ onKey /\ g.loc.pc = "decide"
                         /\ p \in DOMAIN store /\ p \notin DOMAIN store'
            created == p \notin DOMAIN store /\ p \in DOMAIN store'
            disturbed == ~(Unused(store, p) /\ Unused(store', p) /\ store'[p] = store[p])
            failedKey == /\ onKey
                         /\ \/ g.loc.pc \in {"lock", "list"} /\ g2.loc.pc = "iter"
                            \/ g.loc.pc = "decide" /\ g2.loc.deleted
            aborted == g2.err /\ (g.cycles # g2.cycles \/ g.loc.pc = "wait")
            started == g.loc.pc = "idle" /\ g2.loc.pc = "iter"
            ended == g.loc.pc = "iter" /\ g2.loc.pc = "idle"
            saw == IF created THEN FALSE
                   ELSE h.sawUsers \/ (onKey /\ g.loc.pc = "list" /\ g2.loc.hasUsers)
            lost == IF created THEN FALSE
                    ELSE \/ h.lostRef
                         \/ /\ p \in DOMAIN store /\ gc' = gc /\ ops' = ops
                            /\ \E n \in Nodes :
                                 /\ valueKeyPath(store[p].Data, n) \in DOMAIN store
                                 /\ valueKeyPath(store[p].Data, n) \notin DOMAIN store'
            gone == IF p \in DOMAIN store' THEN -1 ELSE h.deletedAt
            base == [h EXCEPT !.sawUsers = saw, !.lostRef = lost]
            reset == [base EXCEPT !.quiet = 0, !.clean = FALSE, !.mismatch = FALSE]
        IN  IF gcDeleted
            THEN [reset EXCEPT !.deletedAt = IF h.clean THEN h.quiet ELSE -1]
            ELSE IF disturbed \/ failedKey \/ aborted
            THEN [reset EXCEPT !.deletedAt = gone]
            ELSE IF started
            THEN [base EXCEPT !.clean = TRUE,
                              !.mismatch = IF h.quiet = 0
                                           THEN /\ p \in DOMAIN g.returned
                                                /\ g.returned[p] # store[p].ModRevision
                                           ELSE @]
            ELSE IF ended /\ h.clean
            THEN [base EXCEPT !.clean = FALSE, !.quiet = @ + 1]
            ELSE base]

----------------------------------------------------------------------------
(* Specification of the backend under free clients and one GC runner *)

\* another allocator instance shares the prefix: it holds ID 3, out of this
\* instance's range, for the longer key K2, with one slave key of its own
OtherStore ==
    (idKeyPath(maxID + 1) :> [Data |-> K2, ModRevision |-> 1, LeaseID |-> 0])
    @@ (Join(<<valuePrefix, K2, <<"z">>>>) :>
            [Data |-> FormatUint(maxID + 1), ModRevision |-> 1, LeaseID |-> LeaseOf("other")])

\* keyToID: the ID of a master key path, -1 for an error
keyToID(key) ==
    IF ~HasPrefix(key, idPrefix) THEN -1
    ELSE LET suffix0 == TrimPrefix(key, idPrefix)
             suffix1 == IF suffix0 # <<>> /\ suffix0[1] = "/" THEN Tail(suffix0) ELSE suffix0
         IN  ParseUint(suffix1)

\* what ListAndWatch has handed to the cache once every event up to now is
\* delivered: OnUpsert(id, key) for each master key with a non-empty value
Upserted ==
    LET ps == {p \in ListPrefix(idPrefix) : keyToID(p) > 0 /\ store[p].Data # <<>>}
    IN  [id \in {keyToID(p) : p \in ps} |->
            store[CHOOSE p \in ps : keyToID(p) = id].Data]

\* RunLocksGC before it is called: the map the last call returned, the
\* number of calls
LocksGCIdle(returned, rounds) ==
    [pc |-> "idle", allocated |-> EmptyMap, todo |-> {},
     staleKeysPrevRound |-> EmptyMap, staleKeys |-> EmptyMap,
     returned |-> returned, rounds |-> rounds, err |-> FALSE]

\* ListAndWatch before its first event
WatchInit ==
    [events |-> <<>>, calls |-> <<>>, cache |-> EmptyMap,
     phase |-> "init", queue |-> <<>>, restarts |-> 0, full |-> EmptyMap]

\* the facade of a node after the initial list is done: no call, the cache
\* holds the master keys listed, no local reference
FacadeIdle(cache, calls) ==
    [pc |-> "idle", key |-> <<>>, id |-> 0, via |-> "none", tried |-> {},
     refcnt |-> 0, cache |-> cache, calls |-> calls]


Init ==
    /\ store = OtherStore
    /\ ver = [p \in DOMAIN OtherStore |-> 1]
    /\ held = [n \in Nodes |-> NoLock]
    /\ ret = [n \in Nodes |-> NoResult]
    /\ gc = [r \in Runners |-> GCRunner(EmptyMap, 0)]
    /\ hist = HistInit
    /\ lgc = LocksGCIdle(EmptyMap, 0)
    /\ al = [n \in Nodes |-> FacadeIdle(Upserted, 0)]
    /\ lw = WatchInit
    /\ ops = 0

\* the mapping the nodes work on: K1 under ID 1
Masters == {<<1, K1>>}
Refs == {<<"n1", 1, K1>>, <<"n2", 1, K1>>}

NodeStep(A) ==
    /\ ops < MaxOps
    /\ A
    /\ ops' = ops + 1
    /\ UNCHANGED <<lgc, al, held, ret, gc, lw>>
    /\ HistStep
EnvStep(A) == A /\ UNCHANGED <<lgc, al, held, ret, gc, ops, lw>> /\ HistStep
GCStep(A) == A /\ UNCHANGED <<lgc, al, held, ret, ops, lw>> /\ HistStep

Next ==
    \/ \E m \in Masters : NodeStep(AllocateID("n1", m[1], m[2], TRUE))
    \/ \E x \in Refs : NodeStep(AcquireReference(x[1], x[2], x[3], TRUE))
    \/ \E x \in Refs : NodeStep(Release(x[1], x[2], x[3], TRUE))
    \/ NodeStep(DeleteID(1, TRUE))
    \/ \E c \in Nodes \cup {"g1"} : EnvStep(LeaseExpire(c))
    \/ GCStep(GCStart("g1", TRUE))
    \/ GCStep(GCPick("g1"))
    \/ GCStep(GCLock("g1", TRUE))
    \/ GCStep(GCList("g1", TRUE))
    \/ GCStep(GCDecide("g1", TRUE))
    \/ GCStep(GCUnlock("g1"))
    \/ GCStep(GCWait("g1", TRUE))
    \/ GCStep(GCEnd("g1"))

Spec == Init /\ [][Next]_vars

----------------------------------------------------------------------------
(* Claims on RunGC, checked under Spec *)

\* runner r's DeleteIfLocked removes master key p in this step
GCDeletes(r, p) ==
    /\ gc[r].loc.pc = "decide" /\ gc'[r].loc.pc = "unlock"
    /\ gc[r].loc.key = p
    /\ p \in DOMAIN store /\ p \notin DOMAIN store'

\* q is prefix, a "/" and one more path element
ExactSlave(prefix, q) ==
    /\ HasPrefix(q, prefix \o <<"/">>)
    /\ \A i \in (Len(prefix) + 2)..Len(q) : q[i] # "/"

\* C1: RunGC deletes a master key only while it holds the lock of that key,
\* after a locked listing of this cycle that held no slave key of the master
\* key's value, and with the key marked in the previous round's map at the
\* revision listed in this cycle.
C1_DeleteOnlyLockedUnusedMarked ==
    [][\A p \in IdPaths : GCDeletes("g1", p) =>
        LET loc == gc["g1"].loc
        IN  /\ LockValid(loc.lck)
            /\ loc.lck.path = Join(<<lockPrefix, <<"i", "d">>, LastItem(p)>>)
            /\ \A q \in DOMAIN loc.pairs :
                 ~ExactSlave(Join(<<valuePrefix, loc.allocated[p].Data>>), q)
            /\ p \in DOMAIN loc.staleKeysPrevRound
            /\ loc.staleKeysPrevRound[p] = loc.allocated[p].ModRevision]_vars

\* a cycle has just deleted a master key
C1_Witness ==
    LET loc == gc["g1"].loc
    IN  loc.pc = "unlock" /\ loc.deleted /\ loc.deletedEntries = 1
        /\ loc.key \notin DOMAIN store

\* runner r executes the body of "if !hasUsers" in this step
Decides(r) == gc[r].loc.pc = "decide" /\ gc'[r].loc.pc = "unlock"

\* the key of the step is kept and recorded at its listed revision
KeptAndMarked(r) ==
    LET loc == gc[r].loc
    IN  /\ ~gc'[r].loc.deleted
        /\ loc.key \in DOMAIN store => loc.key \in DOMAIN store'
        /\ loc.key \in DOMAIN gc'[r].loc.staleKeys
        /\ gc'[r].loc.staleKeys[loc.key] = loc.allocated[loc.key].ModRevision

\* the key of the step is kept and not recorded
KeptUnmarked(r) ==
    LET loc == gc[r].loc
    IN  /\ ~gc'[r].loc.deleted
        /\ loc.key \in DOMAIN store => loc.key \in DOMAIN store'
        /\ loc.key \notin DOMAIN gc'[r].loc.staleKeys

\* DeleteIfLocked is issued on the key of the step
DeleteIssued(r) ==
    LET loc == gc[r].loc
    IN  /\ gc'[r].loc.deleted
        /\ LockValid(loc.lck) => loc.key \notin DOMAIN store'

\* C2 as stated: an unused key marked at the listed revision is deleted; in
\* every other case it is kept and recorded at its current revision.
C2_Original ==
    [][(Decides("g1") /\ ~gc["g1"].loc.hasUsers) =>
        LET loc == gc["g1"].loc
            prev == loc.staleKeysPrevRound
        IN  IF loc.key \in DOMAIN prev /\ prev[loc.key] = loc.allocated[loc.key].ModRevision
            THEN DeleteIssued("g1")
            ELSE KeptAndMarked("g1")]_vars

\* C2 amended: an unused key marked at the listed revision is deleted; a key
\* absent from the previous round's map is kept and recorded at its current
\* revision; a key marked at another revision is kept and not recorded.
C2_DeleteMarkOrSkip ==
    [][(Decides("g1") /\ ~gc["g1"].loc.hasUsers) =>
        LET loc == gc["g1"].loc
            prev == loc.staleKeysPrevRound
        IN  IF loc.key \notin DOMAIN prev THEN KeptAndMarked("g1")
            ELSE IF prev[loc.key] = loc.allocated[loc.key].ModRevision
            THEN DeleteIssued("g1")
            ELSE KeptUnmarked("g1")]_vars

\* a cycle has found an unused key that was marked at another revision
C2_Witness ==
    LET loc == gc["g1"].loc
    IN  /\ loc.pc = "unlock" /\ ~loc.hasUsers
        /\ loc.key \in DOMAIN loc.staleKeysPrevRound
        /\ loc.staleKeysPrevRound[loc.key] # loc.allocated[loc.key].ModRevision
        /\ loc.key \in DOMAIN store

\* C3 as stated: whatever map the first cycle was given, a master key that
\* stays unused and unmodified does not survive two complete cycles.
C3_Original == \A p \in IdPaths : hist[p].quiet < 2

\* C3 amended: an unused, unmodified master key does not survive two complete
\* cycles unless the map given to the first held it at another revision, and
\* then it does not survive three.
C3_ReclaimedAfterTwoOrThree ==
    \A p \in IdPaths : hist[p].quiet < 3 /\ (hist[p].quiet = 2 => hist[p].mismatch)

\* the second complete cycle after the last use deleted the master key
C3_Witness == \E p \in IdPaths : p \notin DOMAIN store /\ hist[p].deletedAt = 1

\* C4: during a cycle that listed a master key at a revision other than the
\* one it is marked at, the key is not removed by RunGC.
C4_MarkAtOtherRevisionNeverDeletes ==
    [][\A p \in IdPaths :
        LET loc == gc["g1"].loc
        IN  (/\ p \in DOMAIN loc.allocated
             /\ p \in DOMAIN loc.staleKeysPrevRound
             /\ loc.staleKeysPrevRound[p] # loc.allocated[p].ModRevision
             /\ p \in DOMAIN store /\ p \notin DOMAIN store')
            => gc' = gc]_vars

\* a complete cycle was given a mark of another revision and left the unused
\* key in the store
C4_Witness == \E p \in IdPaths : hist[p].mismatch /\ hist[p].quiet >= 1 /\ p \in DOMAIN store

\* p is a master key path
IsMasterPath(p) == HasPrefix(p, idPrefix \o <<"/">>)

\* p is the slave key path of node n for some key
IsSlavePathOf(p, n) == \E key \in Keys : p = valuePrefix \o <<"/">> \o key \o <<"/">> \o suffix(n)

IsLockPath(p) == HasPrefix(p, lockPrefix \o <<"/">>)

\* a lease is lost in this step
LeaseLost == gc' = gc /\ ops' = ops /\ store' # store

\* C9, lease loss is node scoped: the loss of a lease removes slave keys of
\* one node only (and locks), no master key, and changes no other entry.
C9_LeaseLossNodeScoped ==
    LeaseLost =>
        /\ \E c \in Nodes \cup Runners :
             \A p \in DOMAIN store \ DOMAIN store' :
                 /\ ~IsMasterPath(p)
                 /\ IsLockPath(p) \/ (c \in Nodes /\ IsSlavePathOf(p, c))
        /\ \A p \in DOMAIN store' : p \in DOMAIN store /\ store'[p] = store[p]

\* C9, no deletion while a slave key is held: when RunGC deletes a master
\* key, no slave key of its value that the cycle's listing could have seen
\* and that was not rewritten since is in the store.
C9_NoDeleteWhileHeld ==
    \A p \in IdPaths : GCDeletes("g1", p) =>
        \A n \in Nodes :
            LET q == valueKeyPath(store[p].Data, n)
                pairs == gc["g1"].loc.pairs
            IN  q \in DOMAIN store =>
                    ~(q \in DOMAIN pairs /\ pairs[q].ModRevision = store[q].ModRevision)

----------------------------------------------------------------------------
(* Specification of nodes that take the allocator lock of a key around     *)
(* their writes, next to one GC runner                                     *)

\* Lock(key): kvstore.LockPath blocks until the lock path is free
Lock(n, key) ==
    /\ held[n] = NoLock
    /\ ~Exists(lock(key))
    /\ store' = StoreAfterLock(n, lock(key))
    /\ ver' = VerAfterPut(lock(key))
    /\ held' = [held EXCEPT ![n] = HandleAfterLock(lock(key))]

Unlock(n) ==
    /\ held[n] # NoLock
    /\ store' = StoreAfterUnlock(held[n])
    /\ ver' = ver
    /\ held' = [held EXCEPT ![n] = NoLock]

\* a backend call of node n that takes no lock, returning res
Call(n, A) ==
    /\ ops < MaxLockedOps
    /\ A
    /\ ops' = ops + 1
    /\ UNCHANGED <<lgc, al, held, gc, hist, lw>>

\* a backend call of node n under the lock it holds
LockedCall(n, A) == held[n] # NoLock /\ Call(n, A)

Returns(n, res) == ret' = [ret EXCEPT ![n] = res]

LNext ==
    \/ \E n \in Nodes : ops < MaxLockedOps /\ Lock(n, K1) /\ ops' = ops + 1 /\ UNCHANGED <<lgc, al, ret, gc, hist, lw>>
    \/ \E n \in Nodes : Unlock(n) /\ UNCHANGED <<lgc, al, ret, gc, hist, ops, lw>>
    \/ \E n \in Nodes, key \in Keys, ok \in BOOLEAN :
          /\ Call(n, AllocateID(n, 1, key, ok))
          /\ Returns(n, Result(ops', "AllocateID", 1, key, AllocateIDErr(1, ok)))
    \/ \E n \in Nodes, key \in Keys, ok \in BOOLEAN :
          /\ LockedCall(n, AllocateIDIfLocked(n, 1, key, ok, held[n]))
          /\ Returns(n, Result(ops', "AllocateIDIfLocked", 1, key,
                                AllocateIDErr(1, ok /\ LockValid(held[n]))))
    \/ \E n \in Nodes :
          /\ LockedCall(n, AcquireReference(n, 1, K1, LockValid(held[n])))
          /\ ret' = ret
    \/ \E n \in Nodes : Call(n, Release(n, 1, K1, TRUE)) /\ ret' = ret
    \/ \E c \in Nodes : LeaseExpire(c) /\ UNCHANGED <<lgc, al, held, ret, gc, hist, ops, lw>>
    \/ gc["g1"].cycles < MaxLockedCycles /\ GCStart("g1", TRUE) /\ UNCHANGED <<lgc, al, held, ret, hist, ops, lw>>
    \/ GCPick("g1") /\ UNCHANGED <<lgc, al, held, ret, hist, ops, lw>>
    \/ GCLock("g1", TRUE) /\ UNCHANGED <<lgc, al, held, ret, hist, ops, lw>>
    \/ GCList("g1", TRUE) /\ UNCHANGED <<lgc, al, held, ret, hist, ops, lw>>
    \/ GCDecide("g1", TRUE) /\ UNCHANGED <<lgc, al, held, ret, hist, ops, lw>>
    \/ GCUnlock("g1") /\ UNCHANGED <<lgc, al, held, ret, hist, ops, lw>>
    \/ GCWait("g1", TRUE) /\ UNCHANGED <<lgc, al, held, ret, hist, ops, lw>>
    \/ GCEnd("g1") /\ UNCHANGED <<lgc, al, held, ret, hist, ops, lw>>

SpecLocked == Init /\ [][LNext]_vars

\* node n returns from AllocateID or AllocateIDIfLocked in this step
AllocateReturns(n) ==
    ret'[n] # ret[n] /\ ret'[n].op \in {"AllocateID", "AllocateIDIfLocked"}

Succeeded(n, id) ==
    ret[n].op \in {"AllocateID", "AllocateIDIfLocked"} /\ ret[n].id = id /\ ~ret[n].err

\* C7: AllocateID and AllocateIDIfLocked create the master key of the ID only
\* if it is absent: a call that returns an error leaves the store as it was,
\* a call that returns no error found no master key for the ID and created it
\* with the key it was given, and of the calls for one ID no more succeed
\* than the master key was written.
C7_CreateOnlyIfAbsent ==
    /\ [][\A n \in Nodes : AllocateReturns(n) =>
            LET p == idKeyPath(ret'[n].id)
            IN  IF ret'[n].err
                THEN store' = store
                ELSE /\ p \notin DOMAIN store
                     /\ p \in DOMAIN store'
                     /\ store'[p].Data = ret'[n].key
                     /\ \A q \in DOMAIN store : q \in DOMAIN store' /\ store'[q] = store[q]]_vars
    /\ [](\A id \in IDs :
            Cardinality({n \in Nodes : Succeeded(n, id)}) <= Ver(idKeyPath(id)))

\* one node created the master key of ID 1, the other was refused with
\* another key and the master key still holds the first key
C7_Witness ==
    \E n, m \in Nodes :
        /\ Succeeded(n, 1) /\ ret[n].key = K1
        /\ ret[m].op = "AllocateID" /\ ret[m].id = 1 /\ ret[m].err /\ ret[m].key = K2
        /\ ret[m].at > ret[n].at
        /\ Exists(idKeyPath(1)) /\ store[idKeyPath(1)].Data = K1
        /\ Ver(idKeyPath(1)) = 1

\* node n writes, under the lock it took for key, its slave key of key
LockedSlaveWrite(n, key) ==
    /\ LockValid(held[n]) /\ held[n].path = lock(key)
    /\ valueKeyPath(key, n) \in DOMAIN store'
    /\ valueKeyPath(key, n) \in DOMAIN store => store'[valueKeyPath(key, n)] # store[valueKeyPath(key, n)]

\* runner r holds its lock for a master key of key, has listed the slave
\* keys and has not yet decided
GCChecking(r, key) ==
    /\ gc[r].loc.pc = "decide"
    /\ LockValid(gc[r].loc.lck)
    /\ gc[r].loc.allocated[gc[r].loc.key].Data = key

\* C8 as stated: the lock a node takes for a key and the lock RunGC takes for
\* a master key of that key exclude each other, so no node writes a slave key
\* under its lock between the listing and the decision of a GC cycle on the
\* mapping.
C8_Original ==
    [][\A n \in Nodes, key \in Keys :
          LockedSlaveWrite(n, key) => ~GCChecking("g1", key)]_vars

\* both locks are held at once, for the same mapping
C8_Witness ==
    \E n \in Nodes : LockValid(held[n]) /\ held[n].path = lock(K1) /\ GCChecking("g1", K1)

----------------------------------------------------------------------------
(* RunLocksGC, one step per kvstore call *)

\* the mutant of LockStale: a lock is stale when its lease has changed
LockStaleLeaseChanged(staleKeysPrevRound, key, v) ==
    /\ key \in DOMAIN staleKeysPrevRound
    /\ staleKeysPrevRound[key].ModRevision = v.ModRevision
    /\ staleKeysPrevRound[key].LeaseID # v.LeaseID

\* the mutant of LockStale: the revision of the lock is not compared
LockStaleByLease(staleKeysPrevRound, key, v) ==
    /\ key \in DOMAIN staleKeysPrevRound
    /\ staleKeysPrevRound[key].LeaseID = v.LeaseID

\* the lock was marked in the previous round with the same revision and lease
LockStale(staleKeysPrevRound, key, v) ==
    /\ key \in DOMAIN staleKeysPrevRound
    /\ staleKeysPrevRound[key].ModRevision = v.ModRevision
    /\ staleKeysPrevRound[key].LeaseID = v.LeaseID

\* ListPrefix(lockPrefix); on an error RunLocksGC returns (nil, err)
LocksGCStart(ok) ==
    /\ lgc.pc = "idle"
    /\ lgc.rounds < MaxRounds
    /\ lgc' = IF ok
              THEN [lgc EXCEPT !.pc = "iter", !.rounds = @ + 1, !.err = FALSE,
                               !.allocated = [p \in ListPrefix(lockPrefix) |-> store[p]],
                               !.todo = ListPrefix(lockPrefix),
                               !.staleKeysPrevRound = lgc.returned,
                               !.staleKeys = EmptyMap]
              ELSE [LocksGCIdle(EmptyMap, lgc.rounds + 1) EXCEPT !.err = TRUE]
    /\ UNCHANGED <<store, ver>>

\* the mutant of LocksGCStep: a stale lock whose Delete fails is not recorded
LocksGCStepDropsFailed(ok) ==
    /\ lgc.pc = "iter"
    /\ \E key \in lgc.todo :
         LET v == lgc.allocated[key]
             stale == LockStale(lgc.staleKeysPrevRound, key, v)
         IN  /\ store' = IF stale /\ ok THEN StoreAfterDelete(key) ELSE store
             /\ lgc' = [lgc EXCEPT
                          !.todo = @ \ {key},
                          !.staleKeys = IF stale THEN @
                                        ELSE (key :> [ModRevision |-> v.ModRevision,
                                                      LeaseID |-> v.LeaseID]) @@ @]
    /\ ver' = ver

\* one iteration of the loop: Delete(key) of a stale lock; a lock that is not
\* stale, or whose Delete fails, is recorded for the next round
LocksGCStep(ok) ==
    /\ lgc.pc = "iter"
    /\ \E key \in lgc.todo :
         LET v == lgc.allocated[key]
             delete == LockStale(lgc.staleKeysPrevRound, key, v) /\ ok
         IN  /\ store' = IF delete THEN StoreAfterDelete(key) ELSE store
             /\ lgc' = [lgc EXCEPT
                          !.todo = @ \ {key},
                          !.staleKeys = IF delete THEN @
                                        ELSE (key :> [ModRevision |-> v.ModRevision,
                                                      LeaseID |-> v.LeaseID]) @@ @]
    /\ ver' = ver

\* return staleKeys, nil
LocksGCEnd ==
    /\ lgc.pc = "iter"
    /\ lgc.todo = {}
    /\ lgc' = [LocksGCIdle(lgc.staleKeys, lgc.rounds) EXCEPT
                 !.staleKeysPrevRound = lgc.staleKeysPrevRound,
                 !.staleKeys = lgc.staleKeys]
    /\ UNCHANGED <<store, ver>>

\* nodes lock and unlock keys, the lease of a node may expire, RunLocksGC runs
KNext ==
    \/ \E n \in Nodes, key \in Keys :
          /\ ops < MaxLockOps
          /\ Lock(n, key)
          /\ ops' = ops + 1
          /\ UNCHANGED <<ret, gc, hist, lgc, al, lw>>
    \/ \E n \in Nodes : Unlock(n) /\ UNCHANGED <<ret, gc, hist, lgc, al, ops, lw>>
    \/ \E n \in Nodes : LeaseExpire(n) /\ UNCHANGED <<held, ret, gc, hist, lgc, al, ops, lw>>
    \/ \E ok \in BOOLEAN : LocksGCStart(ok) /\ UNCHANGED <<held, ret, gc, hist, al, ops, lw>>
    \/ \E ok \in BOOLEAN : LocksGCStep(ok) /\ UNCHANGED <<held, ret, gc, hist, al, ops, lw>>
    \/ LocksGCEnd /\ UNCHANGED <<held, ret, gc, hist, al, ops, lw>>

SpecLocksGC == Init /\ [][KNext]_vars

\* RunLocksGC deletes the lock at path p in this step
LocksGCDeletes(p) == lgc' # lgc /\ p \in DOMAIN store /\ p \notin DOMAIN store'

\* RunLocksGC handles the lock at path p in this step
LocksGCVisits(p) == lgc.pc = "iter" /\ p \in lgc.todo /\ p \notin lgc'.todo

\* the pair listed for p in this round is not the pair recorded for p in
\* staleKeysPrevRound
Unmarked(p) ==
    \/ p \notin DOMAIN lgc.staleKeysPrevRound
    \/ lgc.staleKeysPrevRound[p].ModRevision # lgc.allocated[p].ModRevision
    \/ lgc.staleKeysPrevRound[p].LeaseID # lgc.allocated[p].LeaseID

\* C10: RunLocksGC deletes no lock whose listed (ModRevision, LeaseID) is not
\* the pair recorded for it in staleKeysPrevRound or that is absent from
\* staleKeysPrevRound; such a lock is kept and recorded in the returned map
\* with the pair listed in this round.
C10_LocksGCDeletesOnlyMarked ==
    [][\A p \in DOMAIN store \cup lgc.todo :
         /\ LocksGCDeletes(p) => LocksGCVisits(p) /\ ~Unmarked(p)
         /\ (LocksGCVisits(p) /\ Unmarked(p)) =>
               /\ store' = store
               /\ p \in DOMAIN lgc'.staleKeys
               /\ lgc'.staleKeys[p] = [ModRevision |-> lgc.allocated[p].ModRevision,
                                       LeaseID |-> lgc.allocated[p].LeaseID]]_vars

\* a lock marked in one round was taken again by the same node before the
\* next round, which kept it and marked it with its new revision
C10_Witness ==
    \E p \in DOMAIN lgc.staleKeys :
        /\ p \in DOMAIN lgc.staleKeysPrevRound
        /\ lgc.staleKeysPrevRound[p].LeaseID = lgc.staleKeys[p].LeaseID
        /\ lgc.staleKeysPrevRound[p].ModRevision < lgc.staleKeys[p].ModRevision
        /\ p \in DOMAIN store
        /\ store[p].ModRevision = lgc.staleKeys[p].ModRevision

----------------------------------------------------------------------------
(* The allocator facade: Allocate and Release of a node, its watcher *)

\* Get and GetIfLocked: the IDs the call may return, one per slave key of
\* the key whose value parses; NoID (0) if there is none
GetIfLocked(key) ==
    LET prefix == Join(<<valuePrefix, key>>)
        found == {ParseUint(store[k].Data) :
                    k \in {q \in ListPrefix(prefix) :
                             prefixMatchesKey(prefix, q) /\ ParseUint(store[q].Data) # -1}}
    IN  IF found = {} THEN {0} ELSE found

\* the IDs the cache of node n holds for key
Cached(n, key) == {id \in DOMAIN al[n].cache : al[n].cache[id] = key}

\* the IDs the pool of node n can lease: in range, not known to the cache,
\* not refused in an earlier attempt of this call
Free(n) == (IDs \ DOMAIN al[n].cache) \ al[n].tried

\* Allocate(key), up to the choice of the path: a local reference, an ID of
\* the cache, or an ID leased from the pool
AllocateBegin(n, key) ==
    /\ al[n].pc \in {"idle", "done"}
    /\ al[n].pc = "done" => al[n].key = key
    /\ al[n].calls < MaxAllocs
    /\ \/ /\ al[n].refcnt > 0
          /\ al' = [al EXCEPT ![n].refcnt = @ + 1, ![n].via = "local", ![n].calls = @ + 1]
       \/ /\ al[n].refcnt = 0
          /\ \E id \in Cached(n, key) :
                al' = [al EXCEPT ![n] = [@ EXCEPT !.pc = "lock", !.key = key, !.id = id,
                                                  !.via = "cache", !.tried = {},
                                                  !.calls = @ + 1]]
       \/ /\ al[n].refcnt = 0
          /\ Cached(n, key) = {}
          /\ \E id \in Free(n) :
                al' = [al EXCEPT ![n] = [@ EXCEPT !.pc = "lock", !.key = key, !.id = id,
                                                  !.via = "pool", !.tried = {},
                                                  !.calls = @ + 1]]
    /\ UNCHANGED <<store, ver, held>>

\* Lock(key)
AllocateLock(n) ==
    /\ al[n].pc = "lock"
    /\ Lock(n, al[n].key)
    /\ al' = [al EXCEPT ![n].pc = IF al[n].via = "cache" THEN "acquire" ELSE "recheck"]

\* the check under the lock: the cache, then the backend
AllocateRecheck(n) ==
    /\ al[n].pc = "recheck"
    /\ \E id \in (IF Cached(n, al[n].key) # {} THEN Cached(n, al[n].key)
                  ELSE GetIfLocked(al[n].key)) :
          al' = [al EXCEPT ![n] = IF id = 0 THEN [@ EXCEPT !.pc = "create"]
                                  ELSE [@ EXCEPT !.pc = "acquire", !.id = id,
                                                 !.via = "backend"]]
    /\ UNCHANGED <<store, ver, held>>

\* AllocateIDIfLocked(id, key, lock); a refused ID ends the attempt
AllocateCreate(n) ==
    /\ al[n].pc = "create"
    /\ AllocateIDIfLocked(n, al[n].id, al[n].key, TRUE, held[n])
    /\ al' = [al EXCEPT ![n] =
                IF AllocateIDErr(al[n].id, LockValid(held[n]))
                THEN [@ EXCEPT !.pc = "abort", !.tried = @ \cup {al[n].id}]
                ELSE [@ EXCEPT !.pc = "acquire", !.via = "created"]]
    /\ held' = held

\* the attempt is given up: the lock is released, the call retries with
\* another ID of the pool, or with the ID the cache has learnt meanwhile
AllocateRetry(n) ==
    /\ al[n].pc = "abort"
    /\ Unlock(n)
    /\ \/ \E id \in Cached(n, al[n].key) :
             al' = [al EXCEPT ![n].pc = "lock", ![n].id = id, ![n].via = "cache"]
       \/ /\ Cached(n, al[n].key) = {}
          /\ \E id \in Free(n) :
                al' = [al EXCEPT ![n].pc = "lock", ![n].id = id, ![n].via = "pool"]

\* AcquireReference(id, key, lock)
AllocateAcquire(n) ==
    /\ al[n].pc = "acquire"
    /\ AcquireReference(n, al[n].id, al[n].key, LockValid(held[n]))
    /\ al' = [al EXCEPT ![n].pc = "unlock"]
    /\ held' = held

\* the lock is released, the mapping is published in the cache and the
\* local reference is counted; Allocate returns al[n].id
AllocateUnlock(n) ==
    /\ al[n].pc = "unlock"
    /\ Unlock(n)
    /\ al' = [al EXCEPT ![n].pc = "done", ![n].refcnt = 1,
                        ![n].cache = (al[n].id :> al[n].key) @@ @]

\* Release(key) of the facade: the last local reference releases the slave key
FacadeRelease(n) ==
    /\ al[n].pc = "done"
    /\ IF al[n].refcnt > 1
       THEN /\ al' = [al EXCEPT ![n].refcnt = @ - 1]
            /\ UNCHANGED <<store, ver>>
       ELSE /\ Release(n, al[n].id, al[n].key, TRUE)
            /\ al' = [al EXCEPT ![n].pc = "idle", ![n].refcnt = 0]
    /\ held' = held

\* the watcher of node n has delivered every event up to now
WatcherSync(n) ==
    /\ al[n].cache # Upserted
    /\ al' = [al EXCEPT ![n].cache = Upserted]
    /\ UNCHANGED <<store, ver, held>>

ANext ==
    \/ \E n \in Nodes : AllocateBegin(n, K1) /\ UNCHANGED <<ret, gc, hist, lgc, ops, lw>>
    \/ \E n \in Nodes : AllocateLock(n) /\ UNCHANGED <<ret, gc, hist, lgc, ops, lw>>
    \/ \E n \in Nodes : AllocateRecheck(n) /\ UNCHANGED <<ret, gc, hist, lgc, ops, lw>>
    \/ \E n \in Nodes : AllocateCreate(n) /\ UNCHANGED <<ret, gc, hist, lgc, ops, lw>>
    \/ \E n \in Nodes : AllocateRetry(n) /\ UNCHANGED <<ret, gc, hist, lgc, ops, lw>>
    \/ \E n \in Nodes : AllocateAcquire(n) /\ UNCHANGED <<ret, gc, hist, lgc, ops, lw>>
    \/ \E n \in Nodes : AllocateUnlock(n) /\ UNCHANGED <<ret, gc, hist, lgc, ops, lw>>
    \/ \E n \in Nodes : FacadeRelease(n) /\ UNCHANGED <<ret, gc, hist, lgc, ops, lw>>
    \/ \E n \in Nodes : WatcherSync(n) /\ UNCHANGED <<ret, gc, hist, lgc, ops, lw>>

SpecAlloc == Init /\ [][ANext]_vars

\* the master keys that hold key
MastersOf(key) == {p \in ListPrefix(idPrefix) : store[p].Data = key}

\* C5 as stated: no two master keys hold the same canonical key.
C5_Original == \A key \in Keys : Cardinality(MastersOf(key)) <= 1

\* two master keys hold K1 after a node has allocated it, released it, and
\* the other node has allocated it before its watcher caught up
C5_Witness ==
    /\ Cardinality(MastersOf(K1)) = 2
    /\ \E n \in Nodes : al[n].pc = "done" /\ al[n].via = "created"

\* each node has returned from its first Allocate(K1) and holds its reference
BothAllocated == \A n \in Nodes : al[n].pc = "done" /\ al[n].calls = 1

\* C6: when both nodes have run Allocate(k) for a key without master key,
\* both have got the same ID, exactly one master key holds k, the one of that
\* ID, and the slave keys of both nodes hold that ID.
C6_ConcurrentAllocateSameID ==
    BothAllocated =>
        \E id \in IDs :
            /\ \A n \in Nodes : al[n].id = id
            /\ MastersOf(K1) = {idKeyPath(id)}
            /\ \A n \in Nodes :
                  /\ Exists(valueKeyPath(K1, n))
                  /\ store[valueKeyPath(K1, n)].Data = FormatUint(id)

\* one node created the master key, the other found the ID under the lock
\* in the backend, its watcher not having delivered the master key
C6_Witness ==
    /\ BothAllocated
    /\ \E n, m \in Nodes : al[n].via = "created" /\ al[m].via = "backend"

----------------------------------------------------------------------------
(* RunLocksGC when every Delete call succeeds *)

DNext ==
    \/ \E n \in Nodes, key \in Keys :
          /\ ops < MaxLockOps
          /\ Lock(n, key)
          /\ ops' = ops + 1
          /\ UNCHANGED <<ret, gc, hist, lgc, al, lw>>
    \/ \E n \in Nodes : Unlock(n) /\ UNCHANGED <<ret, gc, hist, lgc, al, ops, lw>>
    \/ \E n \in Nodes : LeaseExpire(n) /\ UNCHANGED <<held, ret, gc, hist, lgc, al, ops, lw>>
    \/ \E ok \in BOOLEAN : LocksGCStart(ok) /\ UNCHANGED <<held, ret, gc, hist, al, ops, lw>>
    \/ LocksGCStep(TRUE) /\ UNCHANGED <<held, ret, gc, hist, al, ops, lw>>
    \/ LocksGCEnd /\ UNCHANGED <<held, ret, gc, hist, al, ops, lw>>

SpecLocksGCDeletes == Init /\ [][DNext]_vars

\* the lock at p is in the store with the pair the map m records for it
SamePair(m, p) ==
    /\ p \in DOMAIN m /\ p \in DOMAIN store
    /\ m[p].ModRevision = store[p].ModRevision
    /\ m[p].LeaseID = store[p].LeaseID

\* C11: a lock entry that the first of two consecutive rounds of RunLocksGC
\* recorded, and that the second round lists with the same ModRevision and
\* LeaseID, is deleted by the second round when it handles it; once the
\* second round has returned, no lock is left in the store with the pair the
\* first round recorded for it, and the returned map holds no such pair.
C11_StaleLockDeletedBySecondRound ==
    /\ [][\A p \in lgc.todo :
            (LocksGCVisits(p) /\ ~Unmarked(p) /\ SamePair(lgc.allocated, p)) =>
                /\ p \notin DOMAIN store'
                /\ p \notin DOMAIN lgc'.staleKeys]_vars
    /\ [](lgc.pc = "idle" =>
            \A p \in DOMAIN lgc.staleKeysPrevRound :
                /\ ~SamePair(lgc.staleKeysPrevRound, p)
                /\ p \in DOMAIN lgc.staleKeys =>
                      lgc.staleKeys[p] # lgc.staleKeysPrevRound[p])

\* after the second round a lock the first round recorded is gone from the
\* store and from the returned map, and the node that took it has not
\* released it
C11_Witness ==
    /\ lgc.pc = "idle" /\ lgc.rounds >= 2
    /\ \E p \in DOMAIN lgc.staleKeysPrevRound :
          /\ p \notin DOMAIN store
          /\ p \notin DOMAIN lgc.returned
          /\ \E n \in Nodes :
                /\ held[n].path = p
                /\ held[n].rev = lgc.staleKeysPrevRound[p].ModRevision

----------------------------------------------------------------------------
(* RunGC next to master keys out of its range, called first with any map *)

\* the keys of other allocators: ID 3 above the range, ID 0 below it
RangeStore ==
    OtherStore @@ (idKeyPath(minID - 1) :> [Data |-> K2, ModRevision |-> 1, LeaseID |-> 0])

\* the maps the first call of RunGC may be given
FirstMaps ==
    UNION {[S -> {1}] : S \in SUBSET {idKeyPath(minID - 1), idKeyPath(minID), idKeyPath(maxID + 1)}}

RangeInit ==
    /\ store = RangeStore
    /\ ver = [p \in DOMAIN RangeStore |-> 1]
    /\ held = [n \in Nodes |-> NoLock]
    /\ ret = [n \in Nodes |-> NoResult]
    /\ \E m \in FirstMaps : gc = [r \in Runners |-> GCRunner(m, 0)]
    /\ hist = HistInit
    /\ lgc = LocksGCIdle(EmptyMap, 0)
    /\ al = [n \in Nodes |-> FacadeIdle(Upserted, 0)]
    /\ lw = WatchInit
    /\ ops = 0

RNext ==
    \/ Call("n1", AllocateID("n1", minID, K1, TRUE)) /\ UNCHANGED <<ret, lgc, al, lw>>
    \/ Call("n1", DeleteID(minID, TRUE)) /\ UNCHANGED <<ret, lgc, al, lw>>
    \/ LeaseExpire("other") /\ UNCHANGED <<held, ret, gc, hist, lgc, al, ops, lw>>
    \/ GCStart("g1", TRUE) /\ UNCHANGED <<held, ret, hist, lgc, al, ops, lw>>
    \/ GCPick("g1") /\ UNCHANGED <<held, ret, hist, lgc, al, ops, lw>>
    \/ GCLock("g1", TRUE) /\ UNCHANGED <<held, ret, hist, lgc, al, ops, lw>>
    \/ GCList("g1", TRUE) /\ UNCHANGED <<held, ret, hist, lgc, al, ops, lw>>
    \/ GCDecide("g1", TRUE) /\ UNCHANGED <<held, ret, hist, lgc, al, ops, lw>>
    \/ GCUnlock("g1") /\ UNCHANGED <<held, ret, hist, lgc, al, ops, lw>>
    \/ GCWait("g1", TRUE) /\ UNCHANGED <<held, ret, hist, lgc, al, ops, lw>>
    \/ GCEnd("g1") /\ UNCHANGED <<held, ret, hist, lgc, al, ops, lw>>

SpecRange == RangeInit /\ [][RNext]_vars

\* the master keys in the store whose last path segment parses to an ID
\* below minID or above maxID
OutOfRange ==
    {p \in ListPrefix(idPrefix) :
        /\ ParseUint(LastItem(p)) # -1
        /\ ParseUint(LastItem(p)) < minID \/ ParseUint(LastItem(p)) > maxID}

\* C12: for a master key with an ID out of [minID, maxID], RunGC never takes
\* its lock, never makes it the key whose slave keys are listed, never
\* deletes it and never records it in staleKeys or in the map it returns,
\* whatever map the first call was given.
C12_OutOfRangeSkipped ==
    /\ [](\A p \in OutOfRange :
            /\ gc["g1"].loc.key # p
            /\ ~Exists(lockPath(p))
            /\ p \notin DOMAIN gc["g1"].loc.staleKeys
            /\ (gc["g1"].loc.pc = "idle" /\ gc["g1"].cycles > 0) =>
                  p \notin DOMAIN gc["g1"].returned)
    /\ [][\A p \in OutOfRange : p \in DOMAIN store' /\ store'[p] = store[p]]_vars

\* a cycle has passed over the key of ID 3, which has no slave key left and
\* which the map given to the cycle holds at its revision
C12_Witness ==
    LET p == idKeyPath(maxID + 1)
        loc == gc["g1"].loc
    IN  /\ loc.pc = "iter"
        /\ p \in DOMAIN loc.allocated /\ p \notin loc.todo
        /\ p \in DOMAIN loc.staleKeysPrevRound
        /\ p \in DOMAIN store
        /\ loc.staleKeysPrevRound[p] = store[p].ModRevision
        /\ ListPrefix(Join(<<valuePrefix, store[p].Data>>)) = {}

----------------------------------------------------------------------------
(* UpdateKey, and the facade of a node that re-creates its keys with it *)

\* the mutant of UpdateKeyMaster: the master key is written whether it
\* exists or not
UpdateKeyMasterOverwrites(n, id, key, ok) ==
    LET keyPath == idKeyPath(id)
        success == ok
    IN  /\ store' = IF success THEN StoreAfterPut(keyPath, key, 0) ELSE store
        /\ ver' = IF success THEN VerAfterPut(keyPath) ELSE ver

\* UpdateKey, its first call: CreateOnly(keyPath, key, false); on an error
\* UpdateKey returns
UpdateKeyMaster(n, id, key, ok) ==
    LET keyPath == idKeyPath(id)
        success == ok /\ ~Exists(keyPath)
    IN  /\ store' = IF success THEN StoreAfterPut(keyPath, key, 0) ELSE store
        /\ ver' = IF success THEN VerAfterPut(keyPath) ELSE ver

\* the mutant of UpdateKeySlave: UpdateIfDifferent whatever reliablyMissing
UpdateKeySlaveAlwaysUpdates(n, id, key, reliablyMissing, ok) ==
    LET valueKey == valueKeyPath(key, n)
        data == FormatUint(id)
        recreated == ok /\ Different(valueKey, data, LeaseOf(n))
    IN  /\ store' = IF recreated THEN StoreAfterPut(valueKey, data, LeaseOf(n)) ELSE store
        /\ ver' = IF recreated THEN VerAfterPut(valueKey) ELSE ver

\* UpdateKey, its second call: CreateOnly(valueKey, id, true) if
\* reliablyMissing, UpdateIfDifferent(valueKey, id, true) otherwise
UpdateKeySlave(n, id, key, reliablyMissing, ok) ==
    LET valueKey == valueKeyPath(key, n)
        data == FormatUint(id)
        recreated == /\ ok
                     /\ IF reliablyMissing THEN ~Exists(valueKey)
                        ELSE Different(valueKey, data, LeaseOf(n))
    IN  /\ store' = IF recreated THEN StoreAfterPut(valueKey, data, LeaseOf(n)) ELSE store
        /\ ver' = IF recreated THEN VerAfterPut(valueKey) ELSE ver

\* the facade calls UpdateKey for the mapping the node holds a reference to
SyncMaster(n, ok) ==
    /\ al[n].pc = "done"
    /\ ops < MaxSyncs
    /\ UpdateKeyMaster(n, al[n].id, al[n].key, ok)
    /\ al' = [al EXCEPT ![n].pc = IF ok THEN "sync" ELSE "done"]
    /\ ops' = ops + 1

SyncSlave(n, reliablyMissing, ok) ==
    /\ al[n].pc = "sync"
    /\ UpdateKeySlave(n, al[n].id, al[n].key, reliablyMissing, ok)
    /\ al' = [al EXCEPT ![n].pc = "done"]
    /\ ops' = ops

SNext ==
    \/ \E key \in Keys :
          /\ al["n1"].calls < MaxSyncAllocs
          /\ AllocateBegin("n1", key)
          /\ UNCHANGED <<ret, gc, hist, lgc, ops, lw>>
    \/ AllocateLock("n1") /\ UNCHANGED <<ret, gc, hist, lgc, ops, lw>>
    \/ AllocateRecheck("n1") /\ UNCHANGED <<ret, gc, hist, lgc, ops, lw>>
    \/ AllocateCreate("n1") /\ UNCHANGED <<ret, gc, hist, lgc, ops, lw>>
    \/ AllocateAcquire("n1") /\ UNCHANGED <<ret, gc, hist, lgc, ops, lw>>
    \/ AllocateUnlock("n1") /\ UNCHANGED <<ret, gc, hist, lgc, ops, lw>>
    \/ FacadeRelease("n1") /\ UNCHANGED <<ret, gc, hist, lgc, ops, lw>>
    \/ WatcherSync("n1") /\ UNCHANGED <<ret, gc, hist, lgc, ops, lw>>
    \/ \E ok \in BOOLEAN : SyncMaster("n1", ok) /\ UNCHANGED <<held, ret, gc, hist, lgc, lw>>
    \/ \E rm, ok \in BOOLEAN : SyncSlave("n1", rm, ok) /\ UNCHANGED <<held, ret, gc, hist, lgc, lw>>
    \/ LeaseExpire("n1") /\ UNCHANGED <<held, ret, gc, hist, lgc, al, ops, lw>>
    \/ gc["g1"].cycles < MaxSyncCycles /\ GCStart("g1", TRUE) /\ UNCHANGED <<held, ret, hist, lgc, al, ops, lw>>
    \/ GCPick("g1") /\ UNCHANGED <<held, ret, hist, lgc, al, ops, lw>>
    \/ GCLock("g1", TRUE) /\ UNCHANGED <<held, ret, hist, lgc, al, ops, lw>>
    \/ GCList("g1", TRUE) /\ UNCHANGED <<held, ret, hist, lgc, al, ops, lw>>
    \/ GCDecide("g1", TRUE) /\ UNCHANGED <<held, ret, hist, lgc, al, ops, lw>>
    \/ GCUnlock("g1") /\ UNCHANGED <<held, ret, hist, lgc, al, ops, lw>>
    \/ GCWait("g1", TRUE) /\ UNCHANGED <<held, ret, hist, lgc, al, ops, lw>>
    \/ GCEnd("g1") /\ UNCHANGED <<held, ret, hist, lgc, al, ops, lw>>

SpecSync == Init /\ [][SNext]_vars

\* the ID of master key path p is within [minID, maxID]
WithinRange(p) == keyToID(p) >= minID /\ keyToID(p) <= maxID

----------------------------------------------------------------------------
(* ListAndWatch: the handler calls made for the events of the stream *)

Event(typ, key, value, rev) == [Typ |-> typ, Key |-> key, Value |-> value, ModRevision |-> rev]

\* the events of one history of the prefix: the master key of ID 1 is
\* created, modified (once with an empty value), deleted, created with an
\* empty value and deleted; a master key of ID 0 and a key under the prefix
\* that holds no ID are created
EventHistory ==
    << Event("Create", idKeyPath(1), K1, 1),
       Event("Modify", idKeyPath(1), <<>>, 2),
       Event("Modify", idKeyPath(1), K2, 3),
       Event("Delete", idKeyPath(1), K2, 4),
       Event("Create", idKeyPath(1), <<>>, 5),
       Event("Delete", idKeyPath(1), <<>>, 6),
       Event("Create", idKeyPath(0), K1, 7),
       Event("Create", Join(<<idPrefix, <<"x">>>>), K1, 8) >>

ListDone == Event("ListDone", <<>>, <<>>, 0)

Events == {EventHistory[i] : i \in DOMAIN EventHistory} \cup {ListDone}

HandlerCall(fn, id, key) == [fn |-> fn, id |-> id, key |-> key]

\* idpool.NoID
NoID == 0

\* the mutant of OnEvent: an event with an empty value is handed on
OnEventEmptyValueHandedOn(event) ==
    IF event.Typ = "ListDone" THEN <<HandlerCall("OnListDone", 0, <<>>)>>
    ELSE LET id == keyToID(event.Key)
         IN  IF id = -1 \/ id = NoID THEN <<>>
             ELSE IF event.Typ = "Delete"
             THEN <<HandlerCall("OnDelete", id, event.Value)>>
             ELSE <<HandlerCall("OnUpsert", id, event.Value)>>

\* the mutant of OnEvent: the ID is not compared with NoID
OnEventAnyID(event) ==
    IF event.Typ = "ListDone" THEN <<HandlerCall("OnListDone", 0, <<>>)>>
    ELSE LET id == keyToID(event.Key)
         IN  IF id = -1 THEN <<>>
             ELSE IF event.Value = <<>> /\ event.Typ # "Delete" THEN <<>>
             ELSE IF event.Typ = "Delete"
             THEN <<HandlerCall("OnDelete", id, event.Value)>>
             ELSE <<HandlerCall("OnUpsert", id, event.Value)>>

\* the body of the loop of ListAndWatch: the handler calls made for one
\* event; the key of a call is nil (the empty string here) for an empty value
OnEvent(event) ==
    IF event.Typ = "ListDone" THEN <<HandlerCall("OnListDone", 0, <<>>)>>
    ELSE LET id == keyToID(event.Key)
         IN  IF id = -1 \/ id = NoID THEN <<>>
             ELSE IF event.Value = <<>> /\ event.Typ # "Delete" THEN <<>>
             ELSE IF event.Typ = "Delete"
             THEN <<HandlerCall("OnDelete", id, event.Value)>>
             ELSE <<HandlerCall("OnUpsert", id, event.Value)>>

\* the cache after a handler call: OnUpsert sets the key of the ID, OnDelete
\* drops the ID
CacheAfterCall(cache, c) ==
    CASE c.fn = "OnUpsert" -> (c.id :> c.key) @@ cache
      [] c.fn = "OnDelete" -> [i \in DOMAIN cache \ {c.id} |-> cache[i]]
      [] OTHER -> cache

RECURSIVE CacheAfterCalls(_, _)
CacheAfterCalls(cache, cs) ==
    IF cs = <<>> THEN cache
    ELSE CacheAfterCalls(CacheAfterCall(cache, Head(cs)), Tail(cs))

\* one event is received and handled
Deliver(event) ==
    /\ Len(lw.events) < MaxEvents
    /\ lw' = [lw EXCEPT !.events = Append(@, event),
                        !.calls = @ \o OnEvent(event),
                        !.cache = CacheAfterCalls(@, OnEvent(event))]
    /\ UNCHANGED <<store, ver, held, ret, gc, hist, lgc, al, ops>>

ENext == \E event \in Events : Deliver(event)

SpecEvents == Init /\ [][ENext]_vars

\* the sequence of the handler calls f makes for the events es, in order
RECURSIVE CallsFor(_, _)
CallsFor(f(_), es) == IF es = <<>> THEN <<>> ELSE f(Head(es)) \o CallsFor(f, Tail(es))

\* the handler call C14 states for an event
StatedCall(event) ==
    IF event.Typ = "ListDone" THEN <<HandlerCall("OnListDone", 0, <<>>)>>
    ELSE IF keyToID(event.Key) = -1 THEN <<>>
    ELSE IF event.Typ = "Delete"
    THEN <<HandlerCall("OnDelete", keyToID(event.Key), event.Value)>>
    ELSE IF event.Value # <<>>
    THEN <<HandlerCall("OnUpsert", keyToID(event.Key), event.Value)>>
    ELSE <<>>

\* the same, for the IDs other than NoID
StatedCallButNoID(event) ==
    IF event.Typ # "ListDone" /\ keyToID(event.Key) = NoID THEN <<>> ELSE StatedCall(event)

\* C14 as stated: every event with a parsable ID gets its one handler call,
\* in the order of arrival.
C14_Original == lw.calls = CallsFor(StatedCall, lw.events)

\* C14, amended: the handler calls made are, in the order of arrival, one
\* OnUpsert per Create or Modify event with a non-empty value, one OnDelete
\* per Delete event (with a nil key for an empty value), one OnListDone per
\* ListDone event, for the keys that parse to an ID other than NoID; an
\* event whose key does not parse, or parses to NoID, gets no call and the
\* events after it are handled.
C14_CallsInOrderButNoID == lw.calls = CallsFor(StatedCallButNoID, lw.events)

\* an upsert, a key that does not parse, a delete with an empty value and a
\* ListDone were received; three calls were made
C14_Witness ==
    /\ Len(lw.events) = 4
    /\ lw.events[1].Typ = "Create" /\ lw.events[1].Value = K1 /\ keyToID(lw.events[1].Key) = 1
    /\ keyToID(lw.events[2].Key) = -1
    /\ lw.events[3].Typ = "Delete" /\ lw.events[3].Value = <<>>
    /\ lw.events[4] = ListDone
    /\ lw.calls = <<HandlerCall("OnUpsert", 1, K1), HandlerCall("OnDelete", 1, <<>>),
                    HandlerCall("OnListDone", 0, <<>>)>>

\* the event received in this step is a Create or Modify with an empty value
EmptyValueReceived ==
    /\ Len(lw'.events) = Len(lw.events) + 1
    /\ lw'.events[Len(lw'.events)].Typ \in {"Create", "Modify"}
    /\ lw'.events[Len(lw'.events)].Value = <<>>

\* C15: a Create or Modify event with an empty value makes no handler call
\* and leaves the cache as it was; the events after it are handled.
C15_EmptyValueIgnored ==
    [][EmptyValueReceived => lw'.calls = lw.calls /\ lw'.cache = lw.cache]_vars

\* a Modify with an empty value arrived between a Create and a Modify of ID
\* 1; the cache holds the value of the last
C15_Witness ==
    /\ Len(lw.events) = 3
    /\ lw.events[1].Value = K1 /\ lw.events[1].Typ = "Create"
    /\ lw.events[2].Typ = "Modify" /\ lw.events[2].Value = <<>> /\ keyToID(lw.events[2].Key) = 1
    /\ lw.events[3].Typ = "Modify" /\ lw.events[3].Value = K2
    /\ Len(lw.calls) = 2
    /\ lw.cache = (1 :> K2)

\* the events of the set S once each, in the order of their ModRevision
RECURSIVE InRevisionOrder(_)
InRevisionOrder(S) ==
    IF S = {} THEN <<>>
    ELSE LET first == CHOOSE e \in S : \A f \in S : e.ModRevision <= f.ModRevision
         IN  <<first>> \o InRevisionOrder(S \ {first})

Received == {lw.events[i] : i \in DOMAIN lw.events}

\* C17 as stated: whatever the order and the repetitions in which the events
\* arrive, the cache ends as if they had arrived once each in the order of
\* their ModRevision.
C17_Original ==
    lw.cache = CacheAfterCalls(EmptyMap, CallsFor(StatedCallButNoID, InRevisionOrder(Received)))

\* the positions of the events received that make a call for id
CallsOn(id) ==
    {i \in DOMAIN lw.events :
        /\ StatedCallButNoID(lw.events[i]) # <<>>
        /\ StatedCallButNoID(lw.events[i])[1].fn # "OnListDone"
        /\ StatedCallButNoID(lw.events[i])[1].id = id}

\* the event received in this step is the one received just before it
RepeatedReceived ==
    /\ Len(lw'.events) = Len(lw.events) + 1
    /\ Len(lw.events) >= 1
    /\ lw'.events[Len(lw'.events)] = lw.events[Len(lw.events)]

\* what the cache does (C17): for each ID it holds what the last event to
\* arrive for that ID says, whatever its ModRevision: the key of an upsert,
\* nothing after a delete; an event that arrives twice in a row changes
\* nothing the second time.
C17_LastArrivalWins ==
    /\ [](\A id \in 0..maxID :
            IF CallsOn(id) = {} THEN id \notin DOMAIN lw.cache
            ELSE LET c == StatedCallButNoID(lw.events[Max(CallsOn(id))])[1]
                 IN  IF c.fn = "OnUpsert"
                     THEN id \in DOMAIN lw.cache /\ lw.cache[id] = c.key
                     ELSE id \notin DOMAIN lw.cache)
    /\ [][RepeatedReceived => lw'.cache = lw.cache]_vars

\* the Modify of revision 3 arrived before the Create of revision 1: the
\* cache holds the key of the Create
C17_Witness ==
    /\ Len(lw.events) = 2
    /\ lw.events[1] = EventHistory[3]
    /\ lw.events[2] = EventHistory[1]
    /\ lw.cache = (1 :> K1)

-----------------------------------------------------------------------------
(* The watch of the master key prefix behind ListAndWatch: a listing of the
   keys stored (a Create event each, then ListDone), then one event per
   change; after a disconnection the watch lists again and goes on. The
   events wait in the channel (queue) until ListAndWatch reads them. *)

\* the Create events of a listing of the paths S
RECURSIVE ListEvents(_)
ListEvents(S) ==
    IF S = {} THEN <<>>
    ELSE LET p == CHOOSE q \in S : TRUE
         IN  <<Event("Create", p, store[p].Data, store[p].ModRevision)>> \o ListEvents(S \ {p})

Listing == ListEvents(ListPrefix(idPrefix)) \o <<ListDone>>

\* the event of the change of path p from the store old to the store new
ChangeEvent(p, old, new) ==
    IF p \notin DOMAIN new THEN Event("Delete", p, <<>>, old[p].ModRevision + 1)
    ELSE IF p \notin DOMAIN old THEN Event("Create", p, new[p].Data, new[p].ModRevision)
    ELSE Event("Modify", p, new[p].Data, new[p].ModRevision)

\* the events of one write (a write changes one path at most)
ChangeEvents(old, new) ==
    LET S == {p \in DOMAIN old \cup DOMAIN new :
                /\ HasPrefix(p, idPrefix)
                /\ \/ (p \in DOMAIN old) # (p \in DOMAIN new)
                   \/ p \in DOMAIN old /\ p \in DOMAIN new /\ old[p] # new[p]}
    IN  IF S = {} THEN <<>> ELSE <<ChangeEvent(CHOOSE p \in S : TRUE, old, new)>>

\* the watch starts: the listing is put in the channel
WatchStart ==
    /\ lw.phase = "init"
    /\ lw' = [lw EXCEPT !.phase = "live",
                        !.queue = Listing,
                        !.full = CacheAfterCalls(EmptyMap, CallsFor(OnEvent, Listing))]
    /\ UNCHANGED <<store, ver, held, ret, gc, hist, lgc, al, ops>>

\* a write A to the store; a connected watch puts its event in the channel,
\* and lw.full follows every event, as the cache of a watch that is never
\* disconnected would
WatchedWrite(A) ==
    /\ ops < MaxWatchOps
    /\ A
    /\ ops' = ops + 1
    /\ lw' = [lw EXCEPT !.queue = IF lw.phase = "live" THEN @ \o ChangeEvents(store, store') ELSE @,
                        !.full = IF lw.phase = "init" THEN @
                                 ELSE CacheAfterCalls(@, CallsFor(OnEvent, ChangeEvents(store, store')))]
    /\ UNCHANGED <<held, ret, gc, hist, lgc, al>>

WatchDisconnect ==
    /\ lw.phase = "live"
    /\ lw.restarts < MaxRestarts
    /\ lw' = [lw EXCEPT !.phase = "down"]
    /\ UNCHANGED <<store, ver, held, ret, gc, hist, lgc, al, ops>>

\* the watch reconnects: it lists again, then goes on with the changes
WatchReconnect ==
    /\ lw.phase = "down"
    /\ lw' = [lw EXCEPT !.phase = "live",
                        !.queue = @ \o Listing,
                        !.restarts = @ + 1]
    /\ UNCHANGED <<store, ver, held, ret, gc, hist, lgc, al, ops>>

\* ListAndWatch reads the next event of the channel and handles it
WatchHandle ==
    /\ lw.queue # <<>>
    /\ lw' = [lw EXCEPT !.queue = Tail(@),
                        !.events = Append(@, Head(lw.queue)),
                        !.calls = @ \o OnEvent(Head(lw.queue)),
                        !.cache = CacheAfterCalls(@, OnEvent(Head(lw.queue)))]
    /\ UNCHANGED <<store, ver, held, ret, gc, hist, lgc, al, ops>>

WNext ==
    \/ WatchStart
    \/ \E id \in IDs, key \in Keys : WatchedWrite(AllocateID("n1", id, key, TRUE))
    \/ \E id \in IDs : WatchedWrite(DeleteID(id, TRUE))
    \/ WatchDisconnect
    \/ WatchReconnect
    \/ WatchHandle

SpecWatch == Init /\ [][WNext]_vars

ListDoneCalls == {i \in DOMAIN lw.calls : lw.calls[i].fn = "OnListDone"}

\* C16 as stated: over the whole life of a ListAndWatch call OnListDone is
\* invoked once at most, also when the watch reconnects and lists again.
C16_Original == Cardinality(ListDoneCalls) <= 1

\* the first OnListDone comes after the upserts of the initial listing, and
\* every ListDone event read makes one OnListDone call (C16)
C16_OnListDonePerListDone ==
    /\ Cardinality(ListDoneCalls) = Cardinality({i \in DOMAIN lw.events : lw.events[i].Typ = "ListDone"})
    /\ ListDoneCalls # {} =>
          \E i \in 1..Len(lw.calls) :
              /\ lw.calls[i].fn = "OnUpsert" /\ lw.calls[i].id = maxID + 1
              /\ \A j \in ListDoneCalls : i < j

\* the watch has reconnected once and both ListDone events were handled:
\* OnListDone was called twice
C16_Witness ==
    /\ lw.restarts = 1
    /\ lw.queue = <<>>
    /\ Cardinality(ListDoneCalls) = 2

\* the watch has reconnected and every event of the channel is handled
Resynced == lw.phase = "live" /\ lw.restarts >= 1 /\ lw.queue = <<>>

\* C18 as stated: after a restart the cache equals the cache of a watch that
\* never disconnected.
C18_Original == Resynced => lw.cache = lw.full

\* what the listing after a restart repairs (C18): every master key stored
\* with an ID other than NoID and a value is in the cache with that value
C18_CurrentKeysCached ==
    Resynced =>
        \A p \in ListPrefix(idPrefix) :
            (keyToID(p) > NoID /\ store[p].Data # <<>>) =>
                /\ keyToID(p) \in DOMAIN lw.cache
                /\ lw.cache[keyToID(p)] = store[p].Data

\* the master key of ID 1 was deleted while the watch was down; after the
\* restart the cache still holds it
C18_Witness ==
    /\ Resynced
    /\ ~Exists(idKeyPath(1))
    /\ 1 \in DOMAIN lw.cache
    /\ 1 \notin DOMAIN lw.full

-----------------------------------------------------------------------------
(* AcquireReference and Release of two nodes, each call returning its error,
   next to the mapping of another node (OtherStore) *)

RefCall(n, A) ==
    /\ ops < MaxRefOps
    /\ A
    /\ ops' = ops + 1
    /\ UNCHANGED <<lgc, al, held, gc, hist, lw>>

\* the IDs the nodes refer to: one of the range, and the ID of OtherStore
RefIDs == {minID, maxID + 1}

RefNext ==
    \/ \E n \in Nodes :
          ops < MaxRefOps /\ Lock(n, K1) /\ ops' = ops + 1 /\ UNCHANGED <<lgc, al, ret, gc, hist, lw>>
    \/ \E n \in Nodes : Unlock(n) /\ UNCHANGED <<lgc, al, ret, gc, hist, ops, lw>>
    \/ \E n \in Nodes :
          /\ RefCall(n, AllocateID(n, minID, K1, TRUE))
          /\ Returns(n, Result(ops', "AllocateID", minID, K1, AllocateIDErr(minID, TRUE)))
    \/ \E n \in Nodes, id \in RefIDs, key \in Keys, ok \in BOOLEAN :
          /\ held[n] # NoLock
          /\ RefCall(n, AcquireReference(n, id, key, ok /\ LockValid(held[n])))
          /\ Returns(n, Result(ops', "AcquireReference", id, key, ~(ok /\ LockValid(held[n]))))
    \/ \E n \in Nodes, id \in RefIDs, key \in Keys, ok \in BOOLEAN :
          /\ RefCall(n, Release(n, id, key, ok))
          /\ Returns(n, Result(ops', "Release", id, key, ~ok))
    \/ \E c \in Nodes : LeaseExpire(c) /\ UNCHANGED <<lgc, al, held, ret, gc, hist, ops, lw>>

SpecRefs == Init /\ [][RefNext]_vars

\* node n returns from op in this step
ReturnsFrom(n, op) == ret'[n] # ret[n] /\ ret'[n].op = op

\* path q is stored after the step as before it, or not stored at all
Untouched(q) ==
    /\ (q \in DOMAIN store') = (q \in DOMAIN store)
    /\ q \in DOMAIN store => store'[q] = store[q]

AllPaths == DOMAIN store \cup DOMAIN store'

\* the slave key of n for the key holds id under the lease of n
HoldsReferenceIn(st, n, key, id) ==
    /\ valueKeyPath(key, n) \in DOMAIN st
    /\ st[valueKeyPath(key, n)].Data = FormatUint(id)
    /\ st[valueKeyPath(key, n)].LeaseID = LeaseOf(n)

HoldsReference(n, key, id) == HoldsReferenceIn(store, n, key, id)

\* C19: AcquireReference of node n touches no key but the slave key of n for
\* the key; without an error that slave key holds the ID under the lease of
\* n afterwards; and a call that finds it holding the ID already writes
\* nothing: the slave key keeps its ModRevision, however often the call is
\* repeated.
C19_AcquireReferenceIdempotent ==
    [][\A n \in Nodes : ReturnsFrom(n, "AcquireReference") =>
          LET p == valueKeyPath(ret'[n].key, n)
          IN  /\ \A q \in AllPaths \ {p} : Untouched(q)
              /\ ~ret'[n].err => HoldsReferenceIn(store', n, ret'[n].key, ret'[n].id)
              /\ ret'[n].err => store' = store
              /\ HoldsReference(n, ret'[n].key, ret'[n].id) => (store' = store /\ ver' = ver)]_vars

\* n1 has called AcquireReference(3, K2) twice in a row without an error:
\* its slave key is still the one of the first call
C19_Witness ==
    /\ ops = 3
    /\ ret["n1"] = Result(3, "AcquireReference", maxID + 1, K2, FALSE)
    /\ HoldsReference("n1", K2, maxID + 1)
    /\ store[valueKeyPath(K2, "n1")].ModRevision = 1
    /\ Ver(valueKeyPath(K2, "n1")) = 1

\* C20: Release of node n removes the slave key of n for the key and nothing
\* else: master keys with their ModRevision, the slave keys of other nodes
\* and the keys of other mappings stay; a Release that returns an error
\* leaves the store as it was.
C20_ReleaseRemovesOwnSlaveKeyOnly ==
    [][\A n \in Nodes : ReturnsFrom(n, "Release") =>
          LET p == valueKeyPath(ret'[n].key, n)
          IN  /\ \A q \in AllPaths \ {p} : Untouched(q)
              /\ ~ret'[n].err => p \notin DOMAIN store'
              /\ ret'[n].err => store' = store
              /\ ver' = ver]_vars

\* n1 has released its reference to K2 after acquiring it: its slave key is
\* gone, the slave key of the other node and the master key are stored
C20_Witness ==
    /\ ret["n1"] = Result(3, "Release", maxID + 1, K2, FALSE)
    /\ Ver(valueKeyPath(K2, "n1")) = 1
    /\ ~Exists(valueKeyPath(K2, "n1"))
    /\ Exists(Join(<<valuePrefix, K2, <<"z">>>>))
    /\ Exists(idKeyPath(maxID + 1))

-----------------------------------------------------------------------------
(* UpdateKey and UpdateKeyIfLocked of a node, one kvstore call per step:
   the master key first, then, unless that call failed, the slave key *)

\* a call of UpdateKey / UpdateKeyIfLocked: op says where it stands
UpdateResult(at, op, id, key, reliablyMissing, locked, err) ==
    [at |-> at, op |-> op, id |-> id, key |-> key, err |-> err,
     reliablyMissing |-> reliablyMissing, locked |-> locked]

InUpdateKey(n) == ret[n].op = "UpdateKey.slave"

\* UpdateKeyIfLocked, its first call: CreateOnlyIfLocked(keyPath, key, false, lock)
UpdateKeyIfLockedMaster(n, id, key, ok, lck) ==
    UpdateKeyMaster(n, id, key, ok /\ LockValid(lck))

\* UpdateKeyIfLocked, its second call: CreateOnly without the lock if
\* reliablyMissing, UpdateIfDifferentIfLocked otherwise
UpdateKeyIfLockedSlave(n, id, key, reliablyMissing, ok, lck) ==
    UpdateKeySlave(n, id, key, reliablyMissing, ok /\ (reliablyMissing \/ LockValid(lck)))

\* the first kvstore call of UpdateKey (locked = FALSE) or UpdateKeyIfLocked
UpdateKeyBegin(n, id, key, reliablyMissing, locked, ok) ==
    /\ ~InUpdateKey(n)
    /\ ops < MaxUpdateOps
    /\ locked => held[n] # NoLock
    /\ IF locked THEN UpdateKeyIfLockedMaster(n, id, key, ok, held[n])
       ELSE UpdateKeyMaster(n, id, key, ok)
    /\ ops' = ops + 1
    /\ LET err == ~(ok /\ (locked => LockValid(held[n])))
       IN  ret' = [ret EXCEPT ![n] =
                      UpdateResult(ops', IF err THEN "UpdateKey" ELSE "UpdateKey.slave",
                                   id, key, reliablyMissing, locked, err)]
    /\ UNCHANGED <<lgc, al, held, gc, hist, lw>>

\* the second kvstore call, and the return
UpdateKeyEnd(n, ok) ==
    /\ InUpdateKey(n)
    /\ LET c == ret[n]
       IN  /\ IF c.locked
              THEN UpdateKeyIfLockedSlave(n, c.id, c.key, c.reliablyMissing, ok, held[n])
              ELSE UpdateKeySlave(n, c.id, c.key, c.reliablyMissing, ok)
           /\ ret' = [ret EXCEPT ![n] =
                         UpdateResult(c.at, "UpdateKey", c.id, c.key, c.reliablyMissing, c.locked,
                                      ~(ok /\ (c.locked => (c.reliablyMissing \/ LockValid(held[n])))))]
    /\ UNCHANGED <<lgc, al, held, gc, hist, ops, lw>>

UNext ==
    \/ ops < MaxUpdateOps /\ Lock("n1", K1) /\ ops' = ops + 1 /\ UNCHANGED <<lgc, al, ret, gc, hist, lw>>
    \/ Unlock("n1") /\ UNCHANGED <<lgc, al, ret, gc, hist, ops, lw>>
    \/ \E id \in IDs, key \in Keys, rm, locked, ok \in BOOLEAN :
          UpdateKeyBegin("n1", id, key, rm, locked, ok)
    \/ \E ok \in BOOLEAN : UpdateKeyEnd("n1", ok)
    \/ LeaseExpire("n1") /\ UNCHANGED <<lgc, al, held, ret, gc, hist, ops, lw>>

SpecUpdate == Init /\ [][UNext]_vars

\* node n makes the slave key call of UpdateKey in this step and returns
UpdateKeyReturns(n) == InUpdateKey(n) /\ ret'[n].op = "UpdateKey"

\* C21: in UpdateKey and UpdateKeyIfLocked, with reliablyMissing the slave
\* key of the node is created only if absent: one that exists, whatever ID
\* it holds, is left as it is; without reliablyMissing a call that returns
\* no error leaves the slave key holding the ID, and one that finds it
\* holding the ID already writes nothing. No other key is touched.
C21_UpdateKeySlaveKey ==
    [][\A n \in Nodes : UpdateKeyReturns(n) =>
          LET c == ret'[n]
              p == valueKeyPath(c.key, n)
          IN  /\ \A q \in AllPaths \ {p} : Untouched(q)
              /\ (c.reliablyMissing /\ Exists(p)) => (store' = store /\ ver' = ver)
              /\ (c.reliablyMissing /\ ~Exists(p) /\ ~c.err) => HoldsReferenceIn(store', n, c.key, c.id)
              /\ (~c.reliablyMissing /\ ~c.err) => HoldsReferenceIn(store', n, c.key, c.id)
              /\ (~c.reliablyMissing /\ HoldsReference(n, c.key, c.id)) => (store' = store /\ ver' = ver)
              /\ c.err => store' = store]_vars

\* n1 has called UpdateKey(2, K1, reliablyMissing) without an error while its
\* slave key for K1 held ID 1: the slave key still holds ID 1, as written
C21_Witness ==
    /\ ret["n1"].op = "UpdateKey" /\ ~ret["n1"].err
    /\ ret["n1"].id = 2 /\ ret["n1"].key = K1 /\ ret["n1"].reliablyMissing
    /\ ret["n1"].at = 2
    /\ HoldsReference("n1", K1, 1)
    /\ store[valueKeyPath(K1, "n1")].ModRevision = 1

-----------------------------------------------------------------------------
(* prefixMatchesKey on all strings up to a length *)

Alphabet == {"a", "c", "/"}
Strings == UNION {[1..k -> Alphabet] : k \in 0..MaxLen}

\* a call of prefixMatchesKey with its result
MatchResult(prefix, key, matches) ==
    [at |-> 0, op |-> "prefixMatchesKey", id |-> 0, key |-> key, err |-> FALSE,
     prefix |-> prefix, matches |-> matches]

PNext ==
    \E prefix, key \in Strings :
        /\ ret["n1"] = NoResult
        /\ Returns("n1", MatchResult(prefix, key, prefixMatchesKey(prefix, key)))
        /\ UNCHANGED <<store, ver, held, gc, hist, lgc, al, lw, ops>>

SpecPrefix == Init /\ [][PNext]_vars

Matched == ret["n1"].op = "prefixMatchesKey"

\* key is prefix, a "/" and a string without "/"
PrefixSlashElement(prefix, key) ==
    /\ Len(key) > Len(prefix)
    /\ SubSeq(key, 1, Len(prefix)) = prefix
    /\ key[Len(prefix) + 1] = "/"
    /\ \A i \in (Len(prefix) + 2)..Len(key) : key[i] # "/"

\* C23 as stated: for all strings prefix and key, prefixMatchesKey is true
\* if and only if key is prefix, a "/" and a string without "/".
C23_Original ==
    Matched => (ret["n1"].matches <=> PrefixSlashElement(ret["n1"].prefix, ret["n1"].key))

\* C23, amended: for a key that starts with prefix (as every key that
\* ListPrefix(prefix) returns does), prefixMatchesKey is true if and only if
\* key is prefix, a "/" and a string without "/"; for any key it is true if
\* and only if the last "/" of key is at index len(prefix).
C23_MatchesKeysWithPrefix ==
    Matched =>
        /\ HasPrefix(ret["n1"].key, ret["n1"].prefix) =>
              (ret["n1"].matches <=> PrefixSlashElement(ret["n1"].prefix, ret["n1"].key))
        /\ ret["n1"].matches <=>
              /\ Len(ret["n1"].key) > Len(ret["n1"].prefix)
              /\ ret["n1"].key[Len(ret["n1"].prefix) + 1] = "/"
              /\ \A i \in (Len(ret["n1"].prefix) + 2)..Len(ret["n1"].key) : ret["n1"].key[i] # "/"

\* the prefix has a "/" inside and the key is the prefix and one more element
C23_Witness ==
    /\ Matched
    /\ ret["n1"].prefix = <<"a", "/">>
    /\ ret["n1"].key = <<"a", "/", "/">>
    /\ ret["n1"].matches

-----------------------------------------------------------------------------
(* Get of node n1 while two nodes write slave keys; a slave key may also
   hold a value that is no number, written by another user of the kvstore *)

\* the mutant of Get: every listed key is taken
GetAnyListed(key) ==
    LET prefix == Join(<<valuePrefix, key>>)
        found == {ParseUint(store[k].Data) :
                    k \in {q \in ListPrefix(prefix) : ParseUint(store[q].Data) # -1}}
    IN  IF found = {} THEN {NoID} ELSE found

\* Get: the IDs the call may return (the pairs are ranged over in any order)
Get(key) ==
    LET prefix == Join(<<valuePrefix, key>>)
        found == {ParseUint(store[k].Data) :
                    k \in {q \in ListPrefix(prefix) :
                             prefixMatchesKey(prefix, q) /\ ParseUint(store[q].Data) # -1}}
    IN  IF found = {} THEN {NoID} ELSE found

\* the keys looked up: K1, K2 which starts with K1, and a key with a "/"
GetKeys == Keys \cup {<<"a", "/", "c">>}

GNext ==
    \/ \E n \in Nodes, key \in GetKeys, id \in IDs :
          /\ ops < MaxGetOps
          /\ AcquireReference(n, id, key, TRUE)
          /\ ops' = ops + 1
          /\ UNCHANGED <<held, ret, gc, hist, lgc, al, lw>>
    \/ \E n \in Nodes, key \in GetKeys :
          /\ ops < MaxGetOps
          /\ store' = StoreAfterPut(valueKeyPath(key, n), <<"x">>, 0)
          /\ ver' = VerAfterPut(valueKeyPath(key, n))
          /\ ops' = ops + 1
          /\ UNCHANGED <<held, ret, gc, hist, lgc, al, lw>>
    \/ \E key \in GetKeys, ok \in BOOLEAN :
          \E id \in (IF ok THEN Get(key) ELSE {0}) :
              /\ Returns("n1", Result(ops, "Get", id, key, ~ok))
              /\ UNCHANGED <<store, ver, held, gc, hist, lgc, al, lw, ops>>

SpecGet == Init /\ [][GNext]_vars

\* the stored slave keys of exactly the key whose value is a number
ParsableSlaves(key) ==
    {p \in DOMAIN store :
        /\ ExactSlave(valuePrefix \o <<"/">> \o key, p)
        /\ ParseUint(store[p].Data) # -1}

\* C22: a Get that returns no error returns the ID held by a slave key of
\* exactly the key it was given (value/{key}/{one element}), never that of
\* a slave key of a longer key; slave keys whose value is no number are
\* passed over, and NoID is returned when no slave key of the key holds a
\* number.
C22_GetExactKeyOnly ==
    [][(ReturnsFrom("n1", "Get") /\ ~ret'["n1"].err) =>
          IF ParsableSlaves(ret'["n1"].key) = {}
          THEN ret'["n1"].id = NoID
          ELSE \E p \in ParsableSlaves(ret'["n1"].key) :
                  ret'["n1"].id = ParseUint(store[p].Data)]_vars

\* Get(K1) returned ID 1 from the slave key of n2 while the slave key of n1
\* for K1 held no number and K2, which starts with K1, had a slave key with
\* ID 3
C22_Witness ==
    /\ ret["n1"] = Result(2, "Get", 1, K1, FALSE)
    /\ Exists(valueKeyPath(K1, "n1")) /\ store[valueKeyPath(K1, "n1")].Data = <<"x">>
    /\ Exists(valueKeyPath(K1, "n2")) /\ store[valueKeyPath(K1, "n2")].Data = FormatUint(1)
    /\ Exists(Join(<<valuePrefix, K2, <<"z">>>>))

-----------------------------------------------------------------------------
(* Every operation the backend exposes, called by node n1 next to RunGC and
   RunLocksGC: which of them remove a master key *)

\* DeleteAllKeys: DeletePrefix(basePrefix)
DeleteAllKeys ==
    /\ store' = [p \in {q \in DOMAIN store : ~HasPrefix(q, basePrefix)} |-> store[p]]
    /\ ver' = ver

\* a call of n1 that returns without error
OpCall(A, op) ==
    /\ ops < MaxDeleteOps
    /\ A
    /\ ops' = ops + 1
    /\ Returns("n1", Result(ops', op, minID, K1, FALSE))
    /\ UNCHANGED <<lgc, al, held, gc, hist, lw>>

\* RunLocksGC runs its round without another step in between
ONext ==
    \/ lgc.rounds < MaxDeleteCycles /\ LocksGCStart(TRUE) /\ UNCHANGED <<held, ret, gc, hist, al, ops, lw>>
    \/ LocksGCStep(TRUE) /\ UNCHANGED <<held, ret, gc, hist, al, ops, lw>>
    \/ LocksGCEnd /\ UNCHANGED <<held, ret, gc, hist, al, ops, lw>>
    \/ /\ lgc.pc = "idle"
       /\ \/ OpCall(AllocateID("n1", minID, K1, TRUE), "AllocateID")
          \/ OpCall(AcquireReference("n1", minID, K1, TRUE), "AcquireReference")
          \/ OpCall(Release("n1", minID, K1, TRUE), "Release")
          \/ \E rm \in BOOLEAN :
                /\ ops < MaxDeleteOps
                /\ UpdateKeyBegin("n1", minID, K1, rm, FALSE, TRUE)
          \/ UpdateKeyEnd("n1", TRUE)
          \/ \E id \in Get(K1) :
                /\ ~InUpdateKey("n1")
                /\ ops < MaxDeleteOps
                /\ ops' = ops + 1
                /\ Returns("n1", Result(ops', "Get", id, K1, FALSE))
                /\ UNCHANGED <<store, ver, held, gc, hist, lgc, al, lw>>
          \/ OpCall(DeleteID(minID, TRUE), "DeleteID")
          \/ OpCall(DeleteAllKeys, "DeleteAllKeys")
          \/ \E c \in {"n1"} : LeaseExpire(c) /\ UNCHANGED <<lgc, al, held, ret, gc, hist, ops, lw>>
          \/ gc["g1"].cycles < MaxDeleteCycles /\ GCStart("g1", TRUE) /\ UNCHANGED <<lgc, al, held, ret, hist, ops, lw>>
          \/ GCPick("g1") /\ UNCHANGED <<lgc, al, held, ret, hist, ops, lw>>
          \/ GCLock("g1", TRUE) /\ UNCHANGED <<lgc, al, held, ret, hist, ops, lw>>
          \/ GCList("g1", TRUE) /\ UNCHANGED <<lgc, al, held, ret, hist, ops, lw>>
          \/ GCDecide("g1", TRUE) /\ UNCHANGED <<lgc, al, held, ret, hist, ops, lw>>
          \/ GCUnlock("g1") /\ UNCHANGED <<lgc, al, held, ret, hist, ops, lw>>
          \/ GCWait("g1", TRUE) /\ UNCHANGED <<lgc, al, held, ret, hist, ops, lw>>
          \/ GCEnd("g1") /\ UNCHANGED <<lgc, al, held, ret, hist, ops, lw>>

SpecDelete == Init /\ [][ONext]_vars

\* some master key is stored before the step and not after it
MasterKeyRemoved == \E p \in DOMAIN store : IsMasterPath(p) /\ p \notin DOMAIN store'

\* C24 as stated: a master key is removed only by the delete step of RunGC.
C24_Original ==
    [][MasterKeyRemoved => \E p \in DOMAIN store : GCDeletes("g1", p)]_vars

\* C24, amended: a master key is removed only by the delete step of RunGC,
\* by DeleteID or by DeleteAllKeys; AllocateID, AcquireReference, Release,
\* UpdateKey, Get, RunLocksGC and the loss of a lease remove none.
C24_RemovedByGCOrDelete ==
    [][MasterKeyRemoved =>
          \/ \E p \in DOMAIN store : GCDeletes("g1", p)
          \/ ReturnsFrom("n1", "DeleteID")
          \/ ReturnsFrom("n1", "DeleteAllKeys")]_vars

\* n1 has created the master key of minID and called nothing else; RunGC
\* found it unused in two cycles and removed it
C24_Witness ==
    /\ ops = 1
    /\ ret["n1"].op = "AllocateID"
    /\ Ver(idKeyPath(minID)) = 1
    /\ ~Exists(idKeyPath(minID))
    /\ gc["g1"].cycles = 2

-----------------------------------------------------------------------------
(* RunGC of a runner that is restarted once between two cycles and then
   passes an empty map; every kvstore call succeeds, no key is in use *)

\* the caller of RunGC restarts: the map the last cycle returned is lost
GCRestart(r) ==
    /\ gc[r].loc.pc = "idle"
    /\ ~gc[r].restarted
    /\ gc[r].cycles >= 1
    /\ gc' = [gc EXCEPT ![r].returned = EmptyMap,
                        ![r].lost = gc[r].returned,
                        ![r].restarted = TRUE]
    /\ UNCHANGED <<store, ver>>

TNext ==
    \/ \E id \in IDs : NodeStep(AllocateID("n1", id, K1, TRUE))
    \/ GCStep(GCRestart("g1"))
    \/ GCStep(GCStart("g1", TRUE))
    \/ GCStep(GCPick("g1"))
    \/ GCStep(GCLock("g1", TRUE))
    \/ GCStep(GCList("g1", TRUE))
    \/ GCStep(GCDecide("g1", TRUE))
    \/ GCStep(GCUnlock("g1"))
    \/ GCStep(GCWait("g1", TRUE))
    \/ GCStep(GCEnd("g1"))

SpecRestart == Init /\ [][TNext]_vars

\* a cycle that was passed an empty map deletes no master key
EmptyMapDeletesNothing ==
    (Decides("g1") /\ gc["g1"].loc.staleKeysPrevRound = EmptyMap) => ~gc'["g1"].loc.deleted

\* the map lost in the restart held p at the revision p has
MarkLost(p) ==
    /\ gc["g1"].restarted
    /\ p \in DOMAIN gc["g1"].lost
    /\ gc["g1"].lost[p] = store[p].ModRevision

-----------------------------------------------------------------------------
(* RunGC and ListIDs next to a key under idPrefix that holds no ID *)

\* the key under idPrefix whose last path element is no number
Malformed == Join(<<idPrefix, <<"x">>>>)

ScanInit ==
    /\ store = OtherStore @@ (Malformed :> [Data |-> K1, ModRevision |-> 1, LeaseID |-> 0])
    /\ ver = [p \in DOMAIN OtherStore \cup {Malformed} |-> 1]
    /\ held = [n \in Nodes |-> NoLock]
    /\ ret = [n \in Nodes |-> NoResult]
    /\ gc = [r \in Runners |-> GCRunner(EmptyMap, 0)]
    /\ hist = HistInit
    /\ lgc = LocksGCIdle(EmptyMap, 0)
    /\ al = [n \in Nodes |-> FacadeIdle(Upserted, 0)]
    /\ lw = WatchInit
    /\ ops = 0

\* the mutant of ListIDs: a key that does not parse ends the listing
ListIDsHaltsOnError ==
    IF \E key \in ListPrefix(idPrefix) : keyToID(key) = -1 THEN {}
    ELSE {keyToID(key) : key \in ListPrefix(idPrefix)}

\* ListIDs: the IDs returned (as a set)
ListIDs == {keyToID(key) : key \in {q \in ListPrefix(idPrefix) : keyToID(q) # -1}}

ScanNext ==
    \/ \E id \in IDs : Call("n1", AllocateID("n1", id, K1, TRUE)) /\ UNCHANGED <<ret, lgc, al, lw>>
    \/ /\ Returns("n1", [at |-> ops, op |-> "ListIDs", id |-> 0, key |-> <<>>, err |-> FALSE,
                         ids |-> ListIDs])
       /\ UNCHANGED <<store, ver, held, gc, hist, lgc, al, lw, ops>>
    \/ gc["g1"].cycles < MaxLockedCycles /\ GCStart("g1", TRUE) /\ UNCHANGED <<held, ret, hist, lgc, al, ops, lw>>
    \/ GCPick("g1") /\ UNCHANGED <<held, ret, hist, lgc, al, ops, lw>>
    \/ GCLock("g1", TRUE) /\ UNCHANGED <<held, ret, hist, lgc, al, ops, lw>>
    \/ GCList("g1", TRUE) /\ UNCHANGED <<held, ret, hist, lgc, al, ops, lw>>
    \/ GCDecide("g1", TRUE) /\ UNCHANGED <<held, ret, hist, lgc, al, ops, lw>>
    \/ GCUnlock("g1") /\ UNCHANGED <<held, ret, hist, lgc, al, ops, lw>>
    \/ GCWait("g1", TRUE) /\ UNCHANGED <<held, ret, hist, lgc, al, ops, lw>>
    \/ GCEnd("g1") /\ UNCHANGED <<held, ret, hist, lgc, al, ops, lw>>

SpecScan == ScanInit /\ [][ScanNext]_vars

\* the listed master keys of the cycle whose ID is in the range
ListedInRange ==
    {p \in DOMAIN gc["g1"].loc.allocated : \E id \in IDs : p = idKeyPath(id)}

\* C26: a master key whose last path element is no number does not stop a
\* scan. RunGC never locks it, deletes it or records it, goes on with the
\* loop after it, and has by the end of the cycle deleted or recorded every
\* listed key of its range (none is in use here); ListIDs returns the IDs of
\* all the other master keys.
C26_MalformedKeySkipped ==
    /\ [](/\ gc["g1"].loc.key # Malformed
          /\ ~Exists(lockPath(Malformed))
          /\ Malformed \notin DOMAIN gc["g1"].loc.staleKeys
          /\ Malformed \notin DOMAIN gc["g1"].returned
          /\ ~gc["g1"].err)
    /\ [][/\ Malformed \in DOMAIN store' /\ store'[Malformed] = store[Malformed]
          /\ ReturnsFrom("n1", "ListIDs") =>
                ret'["n1"].ids = {id \in 0..(maxID + 1) : Exists(idKeyPath(id))}
          /\ (Malformed \in gc["g1"].loc.todo /\ Malformed \notin gc'["g1"].loc.todo) =>
                /\ gc'["g1"].loc.pc = "iter"
                /\ gc'["g1"].loc.todo = gc["g1"].loc.todo \ {Malformed}
          /\ (gc["g1"].loc.pc = "iter" /\ gc'["g1"].loc.pc = "idle") =>
                Cardinality(DOMAIN gc["g1"].loc.staleKeys \cap ListedInRange)
                    + gc["g1"].loc.deletedEntries = Cardinality(ListedInRange)]_vars

\* a cycle that listed the malformed key and a key of the range has ended and
\* returned the key of the range as stale; ListIDs returned both other IDs
C26_Witness ==
    /\ gc["g1"].loc.pc = "idle" /\ gc["g1"].cycles = 1
    /\ idKeyPath(minID) \in DOMAIN gc["g1"].returned
    /\ Malformed \in DOMAIN store
    /\ ret["n1"].op = "ListIDs"
    /\ ret["n1"].ids = {minID, maxID + 1}

-----------------------------------------------------------------------------
(* RunGC whose kvstore calls may fail: the lock, the locked listing, the
   delete, the rate limiter; the lease of the runner may expire *)

FNext ==
    \/ \E id \in IDs : Call("n1", AllocateID("n1", id, K1, TRUE)) /\ UNCHANGED <<ret, lgc, al, lw>>
    \/ Call("n1", AcquireReference("n1", minID, K1, TRUE)) /\ UNCHANGED <<ret, lgc, al, lw>>
    \/ LeaseExpire("g1") /\ UNCHANGED <<held, ret, gc, hist, lgc, al, ops, lw>>
    \/ gc["g1"].cycles < MaxLockedCycles /\ GCStart("g1", TRUE) /\ UNCHANGED <<held, ret, hist, lgc, al, ops, lw>>
    \/ GCPick("g1") /\ UNCHANGED <<held, ret, hist, lgc, al, ops, lw>>
    \/ \E ok \in BOOLEAN : GCLock("g1", ok) /\ UNCHANGED <<held, ret, hist, lgc, al, ops, lw>>
    \/ \E ok \in BOOLEAN : GCList("g1", ok) /\ UNCHANGED <<held, ret, hist, lgc, al, ops, lw>>
    \/ \E ok \in BOOLEAN : GCDecide("g1", ok) /\ UNCHANGED <<held, ret, hist, lgc, al, ops, lw>>
    \/ GCUnlock("g1") /\ UNCHANGED <<held, ret, hist, lgc, al, ops, lw>>
    \/ \E ok \in BOOLEAN : GCWait("g1", ok) /\ UNCHANGED <<held, ret, hist, lgc, al, ops, lw>>
    \/ GCEnd("g1") /\ UNCHANGED <<held, ret, hist, lgc, al, ops, lw>>

SpecFail == ScanInit /\ [][FNext]_vars

\* RunGC gives up the key of the step: the lock was not acquired, or the
\* locked listing failed
KeySkipped(r) ==
    /\ gc'[r] # gc[r]
    /\ \/ gc[r].loc.pc = "lock" /\ gc'[r].loc.pc # "list"
       \/ gc[r].loc.pc = "list" /\ gc'[r].loc.pc # "decide"

\* C27: when RunGC cannot take the lock of a master key, or the locked
\* listing fails, the key is neither deleted nor recorded, the loop goes on
\* with the keys left and no error is returned; no key enters staleKeys but
\* the one decided on, each key is handled once in a cycle, and the map
\* returned is staleKeys: the skipped key is not in it, whatever the
\* previous map held.
C27_FailedKeySkipped ==
    /\ [][KeySkipped("g1") =>
            LET loc == gc["g1"].loc
            IN  /\ loc.key \in DOMAIN store => (loc.key \in DOMAIN store' /\ store'[loc.key] = store[loc.key])
                /\ gc'["g1"].loc.pc = "iter"
                /\ gc'["g1"].loc.staleKeys = loc.staleKeys
                /\ loc.key \notin DOMAIN loc.staleKeys
                /\ gc'["g1"].loc.todo = loc.todo
                /\ loc.key \notin loc.todo
                /\ ~gc'["g1"].err
                /\ ~gc'["g1"].loc.deleted
                /\ ~LockValid(loc.lck)']_vars
    /\ [][\A q \in DOMAIN gc'["g1"].loc.staleKeys \ DOMAIN gc["g1"].loc.staleKeys :
            Decides("g1") /\ q = gc["g1"].loc.key]_vars
    /\ [][(gc["g1"].loc.pc = "iter" /\ gc'["g1"].loc.pc = "lock") =>
            gc'["g1"].loc.key \in gc["g1"].loc.todo /\ gc'["g1"].loc.key \notin gc'["g1"].loc.todo]_vars
    /\ [][(gc["g1"].loc.pc = "iter" /\ gc'["g1"].loc.pc = "idle") =>
            gc'["g1"].returned = gc["g1"].loc.staleKeys]_vars

\* the second cycle has passed the key of minID, which the first had
\* recorded and which has no user, without taking its lock a second time:
\* the key is stored and not recorded
C27_Witness ==
    LET p == idKeyPath(minID)
        loc == gc["g1"].loc
    IN  /\ gc["g1"].cycles = 2 /\ loc.pc = "iter" /\ ~gc["g1"].err
        /\ p \in DOMAIN loc.staleKeysPrevRound
        /\ p \in DOMAIN loc.allocated /\ p \notin loc.todo
        /\ loc.staleKeysPrevRound[p] = loc.allocated[p].ModRevision
        /\ Ver(lockPath(p)) = 1
        /\ ~Exists(valueKeyPath(K1, "n1"))
        /\ Exists(p)
        /\ p \notin DOMAIN loc.staleKeys
        /\ loc.todo # {}

\* the runner holds a lock: its handle is valid, or a lock entry of its lease
\* is stored
HoldsLock(r) ==
    \/ LockValid(gc[r].loc.lck)
    \/ \E q \in DOMAIN store : IsLockPath(q) /\ store[q].LeaseID = LeaseOf(r)

----------------------------------------------------------------------------
(* A mark of another revision, checked under Spec *)

\* the cycle in progress listed p at a revision other than the one the map it
\* was passed holds
ListedAtOtherRevision(r, p) ==
    LET loc == gc[r].loc
    IN  /\ loc.pc # "idle"
        /\ p \in DOMAIN loc.allocated
        /\ p \in DOMAIN loc.staleKeysPrevRound
        /\ loc.staleKeysPrevRound[p] # loc.allocated[p].ModRevision

\* C29: a cycle that lists an unused master key at a revision other than the
\* one in the map it was passed neither deletes the key nor has it in the
\* map it returns; if the key stays unused and unmodified the cycle after
\* returns it at its revision, and RunGC deletes it in the cycle after that
\* one and in no earlier cycle.
C29_ChangedRevisionDelaysByOneCycle ==
    /\ [][\A p \in IdPaths :
            ListedAtOtherRevision("g1", p) =>
                /\ ~GCDeletes("g1", p)
                /\ p \notin DOMAIN gc'["g1"].loc.staleKeys
                /\ gc'["g1"].loc.pc = "idle" => p \notin DOMAIN gc'["g1"].returned]_vars
    /\ [](\A p \in IdPaths :
            (hist[p].mismatch /\ hist[p].quiet = 1) => p \notin DOMAIN gc["g1"].returned)
    /\ [](\A p \in IdPaths :
            (hist[p].mismatch /\ hist[p].quiet = 2) =>
                /\ p \in DOMAIN gc["g1"].returned
                /\ gc["g1"].returned[p] = store[p].ModRevision)
    /\ [][\A p \in IdPaths :
            (GCDeletes("g1", p) /\ hist[p].mismatch) => hist[p].quiet = 2]_vars
    /\ [](\A p \in IdPaths : hist[p].mismatch => hist[p].quiet < 3)

\* the master key was deleted by the third complete cycle after its last
\* write: the first was passed a mark of another revision, the second
\* recorded the key
C29_Witness ==
    \E p \in IdPaths :
        /\ p \notin DOMAIN store
        /\ hist[p].deletedAt = 2
        /\ gc["g1"].cycles = MaxCycles
        /\ ~gc["g1"].err

----------------------------------------------------------------------------
(* Two RunGC runners, each passing the map it returned to its next call *)

MaxRunnerOps == 3
MaxRunnerCycles == 2

RunnerStep(A) == A /\ UNCHANGED <<held, ret, hist, lgc, al, ops, lw>>

\* node n1 allocates minID for a key and takes its reference on the mapping
\* the master key holds; both runners run RunGC, every call succeeding
MNext ==
    \/ \E key \in Keys :
          /\ ops < MaxRunnerOps
          /\ AllocateID("n1", minID, key, TRUE)
          /\ ops' = ops + 1
          /\ UNCHANGED <<held, ret, gc, hist, lgc, al, lw>>
    \/ \E key \in Keys :
          /\ ops < MaxRunnerOps
          /\ Exists(idKeyPath(minID)) /\ store[idKeyPath(minID)].Data = key
          /\ AcquireReference("n1", minID, key, TRUE)
          /\ ops' = ops + 1
          /\ UNCHANGED <<held, ret, gc, hist, lgc, al, lw>>
    \/ \E r \in Runners : gc[r].cycles < MaxRunnerCycles /\ RunnerStep(GCStart(r, TRUE))
    \/ \E r \in Runners : RunnerStep(GCPick(r))
    \/ \E r \in Runners : RunnerStep(GCLock(r, TRUE))
    \/ \E r \in Runners : RunnerStep(GCList(r, TRUE))
    \/ \E r \in Runners : RunnerStep(GCDecide(r, TRUE))
    \/ \E r \in Runners : RunnerStep(GCUnlock(r))
    \/ \E r \in Runners : RunnerStep(GCWait(r, TRUE))
    \/ \E r \in Runners : RunnerStep(GCEnd(r))

SpecRunners == Init /\ [][MNext]_vars

\* runner r is between lockPath and Unlock for master key p
InLockedSection(r, p) ==
    /\ gc[r].loc.pc \in {"list", "decide", "unlock"}
    /\ gc[r].loc.key = p

\* the first half of C28 alone: the sections of the two runners for one
\* master key never overlap
SectionsNeverOverlap ==
    \A p \in IdPaths : ~(InLockedSection("g1", p) /\ InLockedSection("g2", p))

\* C28 as stated: the locked sections of the two runners for one master key
\* never overlap, and a runner deletes a master key only when the map its own
\* previous cycle returned holds the key at the revision the key has in the
\* store, and its own listing under the lock found no user.
C28_Original ==
    /\ []SectionsNeverOverlap
    /\ [][\A r \in Runners, p \in IdPaths :
            GCDeletes(r, p) =>
                /\ InLockedSection(r, p)
                /\ ~gc[r].loc.hasUsers
                /\ p \in DOMAIN gc[r].loc.staleKeysPrevRound
                /\ gc[r].loc.staleKeysPrevRound[p] = store[p].ModRevision]_vars

\* a runner has deleted the master key of minID, created a second time after
\* the runner listed it and in use by n1: the key's last revision is 2, the
\* revision listed and marked is 1, the slave key of n1 for K2 is stored
C28_Witness ==
    \E r \in Runners :
        LET p == idKeyPath(minID)
            loc == gc[r].loc
        IN  /\ loc.pc = "unlock" /\ loc.key = p /\ loc.deleted /\ loc.deletedEntries = 1
            /\ ~Exists(p) /\ Ver(p) = 2
            /\ loc.allocated[p].ModRevision = 1
            /\ loc.allocated[p].Data = K1
            /\ Exists(valueKeyPath(K2, "n1"))

----------------------------------------------------------------------------
(* The map RunLocksGC returns, checked under SpecLocksGC *)

\* the pair the round listed for lock path p
ListedPair(p) ==
    [ModRevision |-> lgc.allocated[p].ModRevision, LeaseID |-> lgc.allocated[p].LeaseID]

\* C32: the map RunLocksGC returns is staleKeys, which holds listed locks
\* only, each with the pair listed in this round: a lock the round removed
\* is not recorded, a lock that is in the store after the round handled it
\* (not due, or its Delete failed) is recorded, and a listed lock that is not
\* recorded is one whose Delete was due.
C32_ReturnedMapIsListedMinusDeleted ==
    /\ [][\A p \in lgc.todo :
            LocksGCVisits(p) =>
                /\ LocksGCDeletes(p) => p \notin DOMAIN lgc'.staleKeys
                /\ (p \in DOMAIN store /\ p \in DOMAIN store') =>
                      (p \in DOMAIN lgc'.staleKeys /\ lgc'.staleKeys[p] = ListedPair(p))
                /\ \A q \in DOMAIN lgc.allocated \ {p} :
                      /\ q \in DOMAIN lgc'.staleKeys <=> q \in DOMAIN lgc.staleKeys
                      /\ q \in DOMAIN lgc.staleKeys => lgc'.staleKeys[q] = lgc.staleKeys[q]]_vars
    /\ [](lgc.pc = "iter" =>
            /\ DOMAIN lgc.staleKeys \subseteq DOMAIN lgc.allocated \ lgc.todo
            /\ \A p \in DOMAIN lgc.staleKeys : lgc.staleKeys[p] = ListedPair(p)
            /\ \A p \in DOMAIN lgc.allocated \ (lgc.todo \cup DOMAIN lgc.staleKeys) :
                  ~Unmarked(p))
    /\ [][(lgc.pc = "iter" /\ lgc'.pc = "idle") => lgc'.returned = lgc.staleKeys]_vars

\* a round has returned a lock that the round before had recorded with the
\* same pair and that is still stored with it: its Delete failed
C32_Witness ==
    /\ lgc.pc = "idle" /\ lgc.rounds >= 2
    /\ \E p \in DOMAIN lgc.returned :
         /\ p \in DOMAIN lgc.staleKeysPrevRound
         /\ lgc.staleKeysPrevRound[p] = lgc.returned[p]
         /\ SamePair(lgc.returned, p)

\* C33 as stated: a lock RunLocksGC removes is, when it is removed, stored
\* with the ModRevision and LeaseID the previous round recorded for it.
C33_Original ==
    [][\A p \in DOMAIN store :
         LocksGCDeletes(p) => SamePair(lgc.staleKeysPrevRound, p)]_vars

\* the round is about to call Delete for a lock that it listed with the pair
\* of the previous round and that a node has taken again since the listing:
\* the node's handle is valid, the stored revision is above the listed one
C33_Witness ==
    /\ lgc.pc = "iter"
    /\ \E p \in lgc.todo, n \in Nodes :
         /\ ~Unmarked(p)
         /\ held[n].path = p /\ LockValid(held[n])
         /\ store[p].ModRevision > lgc.allocated[p].ModRevision

----------------------------------------------------------------------------
(* The master key in UpdateKey, checked under SpecUpdate *)

\* node n makes the master key call of UpdateKey or UpdateKeyIfLocked in
\* this step
UpdateKeyBegins(n) ==
    /\ ~InUpdateKey(n)
    /\ ret'[n] # ret[n]
    /\ ret'[n].op \in {"UpdateKey", "UpdateKey.slave"}

\* C34: UpdateKey and UpdateKeyIfLocked write the master key of the ID only
\* when it is absent, and then with the key as its value; a master key that
\* exists, whatever its value, keeps its value and its ModRevision through
\* both calls, and no other master key is touched.
C34_MasterKeyNeverOverwritten ==
    /\ [][\A n \in Nodes : UpdateKeyBegins(n) =>
            LET p == idKeyPath(ret'[n].id)
            IN  /\ Exists(p) => Untouched(p)
                /\ (~Exists(p) /\ p \in DOMAIN store') =>
                      (store'[p].Data = ret'[n].key /\ ~ret'[n].err)
                /\ \A q \in AllPaths \ {p} : Untouched(q)]_vars
    /\ [][\A n \in Nodes : UpdateKeyReturns(n) =>
            \A q \in AllPaths : IsMasterPath(q) => Untouched(q)]_vars

\* n1 has called UpdateKey(1, K2) without an error on a store in which the
\* master key of ID 1 held K1: it still holds K1 at its first revision
C34_Witness ==
    /\ ret["n1"].op = "UpdateKey" /\ ~ret["n1"].err
    /\ ret["n1"].id = minID /\ ret["n1"].key = K2
    /\ Exists(idKeyPath(minID))
    /\ store[idKeyPath(minID)].Data = K1
    /\ store[idKeyPath(minID)].ModRevision = 1

\* C35 as stated: when UpdateKey or UpdateKeyIfLocked returns without an
\* error, the master key of the ID holds the key and the slave key of the
\* node for the key holds the ID.
C35_Original ==
    [][\A n \in Nodes :
         (UpdateKeyReturns(n) /\ ~ret'[n].err) =>
            LET c == ret'[n]
            IN  /\ idKeyPath(c.id) \in DOMAIN store'
                /\ store'[idKeyPath(c.id)].Data = c.key
                /\ HoldsReferenceIn(store', n, c.key, c.id)]_vars

\* UpdateKey(1, K2) of n1 has returned without an error: the slave key of n1
\* for K2 holds ID 1 and the master key of ID 1 holds K1
C35_Witness ==
    /\ ret["n1"].op = "UpdateKey" /\ ~ret["n1"].err
    /\ HoldsReference("n1", K2, minID)
    /\ Exists(idKeyPath(minID))
    /\ store[idKeyPath(minID)].Data = K1

----------------------------------------------------------------------------
(* The statistics of RunGC, checked under SpecFail *)

\* the master keys the cycle listed that are no longer stored as listed: no
\* node deletes or rewrites a master key here, so these are the keys the
\* cycle deleted
ListedAndGone(r) ==
    {p \in DOMAIN gc[r].loc.allocated :
        p \notin DOMAIN store \/ store[p].ModRevision # gc[r].loc.allocated[p].ModRevision}

\* C31: totalEntries is the number of keys under the ID prefix when the
\* cycle lists them, whatever their last path element; deletedEntries grows
\* by one exactly in the steps in which DeleteIfLocked removes the key; a
\* cycle that returns without an error returns Deleted = deletedEntries, the
\* number of listed keys it removed, and Alive = totalEntries - Deleted.
C31_StatsCountDeletedAndListed ==
    /\ [][(gc["g1"].loc.pc = "idle" /\ gc'["g1"].loc.pc = "iter") =>
            /\ gc'["g1"].loc.totalEntries = Cardinality({p \in DOMAIN store : HasPrefix(p, idPrefix)})
            /\ gc'["g1"].loc.deletedEntries = 0]_vars
    /\ [][gc["g1"].loc.pc # "idle" /\ gc'["g1"].loc.pc # "idle" =>
            /\ gc'["g1"].loc.totalEntries = gc["g1"].loc.totalEntries
            /\ gc'["g1"].loc.deletedEntries =
                  gc["g1"].loc.deletedEntries
                      + (IF \E p \in IdPaths : GCDeletes("g1", p) THEN 1 ELSE 0)]_vars
    /\ [](gc["g1"].loc.pc # "idle" =>
            gc["g1"].loc.deletedEntries = Cardinality(ListedAndGone("g1")))
    /\ [][(gc["g1"].loc.pc = "iter" /\ gc'["g1"].loc.pc = "idle") =>
            /\ ~gc'["g1"].err
            /\ gc'["g1"].stats.Deleted = Cardinality(ListedAndGone("g1"))
            /\ gc'["g1"].stats.Alive =
                  Cardinality(DOMAIN gc["g1"].loc.allocated) - gc'["g1"].stats.Deleted
            /\ gc'["g1"].stats.Alive + gc'["g1"].stats.Deleted = gc["g1"].loc.totalEntries]_vars

\* the cycle listed four keys (of IDs 1, 2 and 3 and the malformed one), has
\* deleted one and waits on the limiter after a DeleteIfLocked that failed:
\* the key of that attempt is stored and deletedEntries is 1
C31_Witness ==
    LET loc == gc["g1"].loc
    IN  /\ loc.pc = "wait" /\ Exists(loc.key)
        /\ loc.totalEntries = 4
        /\ Malformed \in DOMAIN loc.allocated
        /\ loc.deletedEntries = 1

----------------------------------------------------------------------------
(* The locks of RunGC, checked under SpecFail *)

\* the lock entries stored under the lease of runner r
LocksOf(r) == {q \in DOMAIN store : IsLockPath(q) /\ store[q].LeaseID = LeaseOf(r)}

----------------------------------------------------------------------------
(* A DeleteIfLocked that fails, checked under SpecFail *)

\* DeleteIfLocked was issued in this step and the key is still stored
DeleteFailed(r) ==
    /\ Decides(r)
    /\ gc'[r].loc.deleted
    /\ gc[r].loc.key \in DOMAIN store'

\* C39: a DeleteIfLocked that fails leaves the master key as it was, leaves
\* deletedEntries as it was and records nothing; at every point of a cycle
\* the keys in staleKeys are keys the map passed to the cycle does not hold,
\* and so are the keys of the map the cycle returns.
C39_FailedDeleteNotRecorded ==
    /\ [][DeleteFailed("g1") =>
            LET loc == gc["g1"].loc
            IN  /\ Untouched(loc.key)
                /\ gc'["g1"].loc.deletedEntries = loc.deletedEntries
                /\ gc'["g1"].loc.staleKeys = loc.staleKeys
                /\ loc.key \notin DOMAIN loc.staleKeys]_vars
    /\ [](DOMAIN gc["g1"].loc.staleKeys \cap DOMAIN gc["g1"].loc.staleKeysPrevRound = {})
    /\ [][(gc["g1"].loc.pc = "iter" /\ gc'["g1"].loc.pc = "idle") =>
            DOMAIN gc'["g1"].returned \cap DOMAIN gc["g1"].loc.staleKeysPrevRound = {}]_vars

\* DeleteIfLocked has failed for the key of minID, which the map passed to
\* the cycle holds at its revision: the key is stored, nothing was counted
\* and staleKeys does not hold it
C39_Witness ==
    LET p == idKeyPath(minID)
        loc == gc["g1"].loc
    IN  /\ loc.pc = "unlock" /\ loc.key = p /\ loc.deleted
        /\ Exists(p) /\ store[p].ModRevision = loc.staleKeysPrevRound[p]
        /\ loc.deletedEntries = 0
        /\ p \notin DOMAIN loc.staleKeys

----------------------------------------------------------------------------
(* A master key found in use, checked under Spec *)

\* C38: a cycle that finds a slave key of the master key's value leaves the
\* key in the store and records nothing for it, whatever the map passed to
\* the cycle holds; staleKeys grows only by a key found without users, the
\* map returned is staleKeys and the next cycle is passed that map; a cycle
\* deletes only a key that the map passed to it holds and that it finds
\* without users. So a key found in use in one cycle is deleted at the
\* earliest by the second cycle after it.
C38_KeyInUseNeverCarried ==
    /\ [][(Decides("g1") /\ gc["g1"].loc.hasUsers) =>
            LET loc == gc["g1"].loc
            IN  /\ store' = store
                /\ gc'["g1"].loc.staleKeys = loc.staleKeys
                /\ loc.key \notin DOMAIN loc.staleKeys
                /\ ~gc'["g1"].loc.deleted]_vars
    /\ [][\A q \in DOMAIN gc'["g1"].loc.staleKeys :
            q \in DOMAIN gc["g1"].loc.staleKeys
            \/ (Decides("g1") /\ q = gc["g1"].loc.key /\ ~gc["g1"].loc.hasUsers)]_vars
    /\ [](\A q \in DOMAIN gc["g1"].loc.staleKeys :
            /\ q \notin gc["g1"].loc.todo
            /\ q = gc["g1"].loc.key => gc["g1"].loc.pc \notin {"lock", "list", "decide"})
    /\ [][(gc["g1"].loc.pc = "iter" /\ gc'["g1"].loc.pc = "idle") =>
            gc'["g1"].returned = gc["g1"].loc.staleKeys]_vars
    /\ [][(gc["g1"].loc.pc = "idle" /\ gc'["g1"].loc.pc = "iter") =>
            gc'["g1"].loc.staleKeysPrevRound = gc["g1"].returned]_vars
    /\ [][\A p \in IdPaths :
            GCDeletes("g1", p) =>
                /\ p \in DOMAIN gc["g1"].loc.staleKeysPrevRound
                /\ ~gc["g1"].loc.hasUsers]_vars

\* the cycle has found a slave key for a master key that the map passed to
\* it holds at the listed revision: the key is stored and not recorded
C38_Witness ==
    LET loc == gc["g1"].loc
    IN  /\ loc.pc = "unlock" /\ loc.hasUsers
        /\ loc.key \in DOMAIN loc.staleKeysPrevRound
        /\ loc.staleKeysPrevRound[loc.key] = loc.allocated[loc.key].ModRevision
        /\ Exists(loc.key)
        /\ loc.key \notin DOMAIN loc.staleKeys

----------------------------------------------------------------------------
(* Slave keys and the master keys they refer to *)

\* the slave keys in the store whose value is the ID of no master key that
\* holds their key
Dangling ==
    {q \in DOMAIN store :
        \E key \in Keys, n \in Nodes :
            /\ q = valueKeyPath(key, n)
            /\ LET p == idKeyPath(ParseUint(store[q].Data))
               IN  ~(p \in DOMAIN store /\ store[p].Data = key)}

\* C36 as stated: every slave key holds the ID of a master key that holds
\* the slave key's key.
C36_Original == Dangling = {}

\* RunGC has deleted the master key of the ID n1 created for K1, and n1, in
\* the same Allocate, has written its slave key of K1 with that ID
C36_Witness ==
    /\ al["n1"].pc \in {"unlock", "done"} /\ al["n1"].via = "created"
    /\ al["n1"].key = K1
    /\ HoldsReference("n1", K1, al["n1"].id)
    /\ ~Exists(idKeyPath(al["n1"].id))
    /\ gc["g1"].stats.Deleted + gc["g1"].loc.deletedEntries >= 1

----------------------------------------------------------------------------
(* RunGC and RunLocksGC when their first ListPrefix may fail *)

\* n1 creates the master key of minID and takes the lock of K1; the runner
\* calls RunGC and RunLocksGC, whose listings fail at choice
INext ==
    \/ Call("n1", AllocateID("n1", minID, K1, TRUE)) /\ UNCHANGED <<ret, lgc, al, lw>>
    \/ ops < MaxLockedOps /\ Lock("n1", K1) /\ ops' = ops + 1 /\ UNCHANGED <<ret, gc, hist, lgc, al, lw>>
    \/ \E ok \in BOOLEAN :
          /\ gc["g1"].cycles < MaxLockedCycles
          /\ GCStart("g1", ok)
          /\ UNCHANGED <<held, ret, hist, lgc, al, ops, lw>>
    \/ GCPick("g1") /\ UNCHANGED <<held, ret, hist, lgc, al, ops, lw>>
    \/ GCLock("g1", TRUE) /\ UNCHANGED <<held, ret, hist, lgc, al, ops, lw>>
    \/ GCList("g1", TRUE) /\ UNCHANGED <<held, ret, hist, lgc, al, ops, lw>>
    \/ GCDecide("g1", TRUE) /\ UNCHANGED <<held, ret, hist, lgc, al, ops, lw>>
    \/ GCUnlock("g1") /\ UNCHANGED <<held, ret, hist, lgc, al, ops, lw>>
    \/ GCWait("g1", TRUE) /\ UNCHANGED <<held, ret, hist, lgc, al, ops, lw>>
    \/ GCEnd("g1") /\ UNCHANGED <<held, ret, hist, lgc, al, ops, lw>>
    \/ \E ok \in BOOLEAN :
          /\ lgc.rounds < MaxLockedCycles
          /\ LocksGCStart(ok)
          /\ UNCHANGED <<held, ret, gc, hist, al, ops, lw>>
    \/ LocksGCStep(TRUE) /\ UNCHANGED <<held, ret, gc, hist, al, ops, lw>>
    \/ LocksGCEnd /\ UNCHANGED <<held, ret, gc, hist, al, ops, lw>>

SpecListFail == Init /\ [][INext]_vars

\* RunGC is called and returns in one step: its ListPrefix failed
GCListFails(r) ==
    /\ gc[r].loc.pc = "idle" /\ gc'[r].loc.pc = "idle"
    /\ gc'[r].cycles = gc[r].cycles + 1

\* RunLocksGC is called and returns in one step: its ListPrefix failed
LocksGCListFails ==
    /\ lgc.pc = "idle" /\ lgc'.pc = "idle"
    /\ lgc'.rounds = lgc.rounds + 1

\* C40: a call of RunGC whose ListPrefix fails returns an error, no map and
\* no stats and leaves the store as it was: no lock is taken, no key is
\* deleted; a call of RunLocksGC whose ListPrefix fails returns an error and
\* no map and leaves the store as it was.
C40_FailedListingHasNoEffect ==
    /\ [][GCListFails("g1") =>
            /\ store' = store /\ ver' = ver
            /\ gc'["g1"].err
            /\ gc'["g1"].returned = EmptyMap
            /\ gc'["g1"].stats = [Alive |-> 0, Deleted |-> 0]
            /\ gc'["g1"].loc = GCIdle]_vars
    /\ [][LocksGCListFails =>
            /\ store' = store /\ ver' = ver
            /\ lgc'.err
            /\ lgc'.returned = EmptyMap]_vars

\* both have failed in their second call, after a first call that recorded
\* the unused master key and the lock of n1: both keys are stored, the
\* runner took the lock of the master key once, and no map is returned
C40_Witness ==
    /\ gc["g1"].loc.pc = "idle" /\ gc["g1"].err /\ gc["g1"].cycles = 2
    /\ Exists(idKeyPath(minID)) /\ Ver(lockPath(idKeyPath(minID))) = 1
    /\ gc["g1"].returned = EmptyMap
    /\ lgc.pc = "idle" /\ lgc.err /\ lgc.rounds = 2
    /\ LockValid(held["n1"])
    /\ lgc.returned = EmptyMap

====
